---- MODULE Spec2Model ----
(***************************************************************************)
(* Model of the buffer-cache memory-coherency core of shadPS4:             *)
(*   - RegionManager (video_core/buffer_cache/word_manager.h): the four    *)
(*     per-region bitsets and the operations that change them.             *)
(*   - BufferCache (video_core/buffer_cache/buffer_cache.h): the page      *)
(*     table, the buffer slots and the operations on them. The header      *)
(*     declares them; their bodies follow sections 3 and 4.3 of the        *)
(*     specification.                                                      *)
(* A 64-bit word is the set of the indices of its set bits (0..63); the    *)
(* shifts and masks of the source are computed on that representation.     *)
(***************************************************************************)
EXTENDS Integers, Sequences, FiniteSets, TLC

\* ------------------------------------------------------------ constants
PAGES_PER_WORD == 64
BYTES_PER_PAGE == 4096
BYTES_PER_WORD == PAGES_PER_WORD * BYTES_PER_PAGE
HIGHER_PAGE_BITS == 22
HIGHER_PAGE_SIZE == 2 ^ HIGHER_PAGE_BITS
NUM_REGION_WORDS == HIGHER_PAGE_SIZE \div BYTES_PER_WORD

WordBits == 0 .. (PAGES_PER_WORD - 1)
WordIdx == 0 .. (NUM_REGION_WORDS - 1)
\* ~u64{0}
AllOnes == WordBits

Min(a, b) == IF a < b THEN a ELSE b
Max(a, b) == IF a > b THEN a ELSE b

\* ----------------------------------------------------- u64 bit operations
\* word >> n and word << n on a 64-bit word (n < 64)
Shr(word, n) == {b - n : b \in {x \in word : x >= n}}
Shl(word, n) == {b + n : b \in {x \in word : x + n < PAGES_PER_WORD}}
\* ~word
Not(word) == WordBits \ word
\* std::countr_zero of a non-zero word, std::countr_one
CountrZero(word) == CHOOSE b \in word : \A x \in word : b <= x
CountrOne(word) == CHOOSE n \in 0 .. PAGES_PER_WORD :
                      /\ n \notin word
                      /\ \A x \in 0 .. (n - 1) : x \in word

\* faulty variant: the bits below page_start are kept
ExtractBits_IgnoresStart(word, page_start, page_end) ==
    LET number_bits == PAGES_PER_WORD
        limit_page_end == number_bits - Min(page_end, number_bits)
    IN Shr(Shl(word, limit_page_end), limit_page_end)

ExtractBits(word, page_start, page_end) ==
    LET number_bits == PAGES_PER_WORD
        limit_page_end == number_bits - Min(page_end, number_bits)
        bits == Shl(Shr(word, page_start), page_start)
    IN Shr(Shl(bits, limit_page_end), limit_page_end)

\* (word_number, page inside the word) of a byte offset
GetWordPage(address) ==
    LET word_number == address \div BYTES_PER_WORD
        amount_pages == address % BYTES_PER_WORD
    IN <<word_number, amount_pages \div BYTES_PER_PAGE>>

\* the loop of IterateWords: the (word_index, mask) pairs handed to func
RECURSIVE IterateWordsLoop(_, _, _, _)
IterateWordsLoop(word_index, end_word, start_page, end_page) ==
    IF word_index < end_word
    THEN <<[index |-> word_index,
            mask |-> ExtractBits(AllOnes, start_page, end_page)]>>
         \o IterateWordsLoop(word_index + 1, end_word, 0, end_page - PAGES_PER_WORD)
    ELSE <<>>

\* faulty variant: start is the size_t offset itself, without the clamp of
\* its s64 reading to 0, so that an offset below the region is a huge start
IterateWords_NoSignedClamp(offset, size) ==
    LET start == offset
        end == Max(offset + size, 0)
    IN IF start < 0 \/ start >= HIGHER_PAGE_SIZE \/ end <= start
       THEN <<>>
       ELSE LET sw == GetWordPage(start)
                ew == GetWordPage(end + BYTES_PER_PAGE - 1)
                start_word == Min(sw[1], NUM_REGION_WORDS)
                end_word0 == Min(ew[1], NUM_REGION_WORDS)
                diff == end_word0 - start_word
                end_word == Min(end_word0
                                + ((ew[2] + PAGES_PER_WORD - 1) \div PAGES_PER_WORD),
                                NUM_REGION_WORDS)
                end_page == ew[2] + diff * PAGES_PER_WORD
            IN IterateWordsLoop(start_word, end_word, sw[2], end_page)

\* offset and size are the s64 readings of the size_t arguments
IterateWords(offset, size) ==
    LET start == Max(offset, 0)
        end == Max(offset + size, 0)
    IN IF start >= HIGHER_PAGE_SIZE \/ end <= start
       THEN <<>>
       ELSE LET sw == GetWordPage(start)
                ew == GetWordPage(end + BYTES_PER_PAGE - 1)
                start_word == Min(sw[1], NUM_REGION_WORDS)
                end_word0 == Min(ew[1], NUM_REGION_WORDS)
                diff == end_word0 - start_word
                end_word == Min(end_word0
                                + ((ew[2] + PAGES_PER_WORD - 1) \div PAGES_PER_WORD),
                                NUM_REGION_WORDS)
                end_page == ew[2] + diff * PAGES_PER_WORD
            IN IterateWordsLoop(start_word, end_word, sw[2], end_page)

\* the (offset, length) runs of set bits handed to func, in call order
RECURSIVE IteratePagesFrom(_, _)
IteratePagesFrom(mask, offset) ==
    IF mask = {}
    THEN <<>>
    ELSE LET empty_bits == CountrZero(mask)
             m1 == Shr(mask, empty_bits)
             continuous_bits == CountrOne(m1)
             m2 == IF continuous_bits < PAGES_PER_WORD
                   THEN Shr(m1, continuous_bits) ELSE {}
         IN <<[offset |-> offset + empty_bits, size |-> continuous_bits]>>
            \o IteratePagesFrom(m2, offset + empty_bits + continuous_bits)

IteratePages(mask) == IteratePagesFrom(mask, 0)

\* ------------------------------------------------------------ state
\* cpu_addr, cpu, gpu, write, read: the fields of the RegionManager.
\* last: the last operation called and its arguments; pre: the four bitsets
\* when it was called; watch: the UpdatePageWatchers calls it made, in order;
\* ranges: the calls of func it made, in order.
\* page_table, slot_buffers: the fields of the BufferCache (a buffer's device
\* memory is the data field of its slot); memory: the guest memory.
\* pending: the downloads ReadMemory is waiting for; downloads: the downloads
\* that completed since ReadMemory was called.
\* lock: the holder of RegionManager::lock (0: free); mutex: the holders of
\* BufferCache::mutex; thr: for each thread, the call it is in and the locals
\* of that call.
\* copy: the call of util_streaming_load_memcpy in progress, its locals and
\* the destination memory.
\* watchers: for each kind of watcher, the running sum per page of the deltas
\* of all UpdatePageWatchers calls so far (pages with sum 0 are left out), and
\* whether every sum has been 0 or 1 after every call.
\* dec: the Videodec2 object (whether mSwsContext is set), the call of Decode
\* in progress with its locals, and the caller's frameBuffer and outputInfo.
VARIABLES cpu_addr, cpu, gpu, write, read, watch, ranges, last, pre,
          page_table, slot_buffers, memory, pending, downloads,
          lock, mutex, thr, copy, watchers, dec

vars == <<cpu_addr, cpu, gpu, write, read, watch, ranges, last, pre,
          page_table, slot_buffers, memory, pending, downloads,
          lock, mutex, thr, copy, watchers, dec>>
extVars == <<copy, dec>>
cacheVars == <<page_table, slot_buffers, memory>>
dlVars == <<pending, downloads>>
lockVars == <<lock, mutex, thr>>

\* the threads that call into the region and the cache
Threads == {1, 2}
NoThread == 0
Idle == [pc |-> "idle"]

\* no lock is held and no thread is inside a call
InitLocks ==
    /\ lock = NoThread
    /\ mutex = [exclusive |-> NoThread, shared |-> {}]
    /\ thr = [t \in Threads |-> Idle]

\* no call of util_streaming_load_memcpy is in progress
NoCopy == [pc |-> "idle"]

\* no UpdatePageWatchers call has been made
NoWatchers == [write |-> [p \in {} |-> 0], read |-> [p \in {} |-> 0], ok |-> TRUE]

\* the running sum of a page
WatcherCount(counts, p) == IF p \in DOMAIN counts THEN counts[p] ELSE 0

\* tracker->UpdatePageWatchers<delta, is_read>(addr, size): the delta is added
\* to the sum of every page of [addr, addr + size)
UpdatePageWatchers(w, n) ==
    LET pages == (n.addr \div BYTES_PER_PAGE)
                 .. ((n.addr + n.size - 1) \div BYTES_PER_PAGE)
        counts == IF n.is_read THEN w.read ELSE w.write
        sum(p) == WatcherCount(counts, p) + (IF p \in pages THEN n.delta ELSE 0)
        new == [p \in {q \in DOMAIN counts \cup pages : sum(q) # 0} |-> sum(p)]
    IN [write |-> IF n.is_read THEN w.write ELSE new,
        read |-> IF n.is_read THEN new ELSE w.read,
        ok |-> w.ok /\ \A p \in pages : sum(p) \in {0, 1}]

\* the UpdatePageWatchers calls of one operation, in order
RECURSIVE Notify(_, _)
Notify(w, ns) ==
    IF ns = <<>> THEN w ELSE Notify(UpdatePageWatchers(w, Head(ns)), Tail(ns))

\* Videodec2(configInfo, memoryInfo): mSwsContext is null, no call of Decode
\* has been made
NoDecode == [pc |-> "idle", sws |-> FALSE]

InitExt ==
    /\ copy = NoCopy
    /\ watchers = NoWatchers
    /\ dec = NoDecode

\* the four bitsets as one record
Bits == [cpu |-> cpu, gpu |-> gpu, write |-> write, read |-> read]

\* faulty variant: notifies only the first run of the word
UpdateProtection_FirstRunOnly(add_to_tracker, is_read, base, word_index, access_bits, mask) ==
    LET delta == IF add_to_tracker THEN 1 ELSE -1
        changed_bits == (IF add_to_tracker THEN access_bits ELSE Not(access_bits))
                        \cap mask
        addr == base + word_index * BYTES_PER_WORD
        runs == IteratePages(changed_bits)
    IN [i \in 1 .. Min(1, Len(runs)) |->
          [addr |-> addr + runs[i].offset * BYTES_PER_PAGE,
           size |-> runs[i].size * BYTES_PER_PAGE,
           delta |-> delta, is_read |-> is_read]]

\* the notifications UpdateProtection sends to the tracker for one word
UpdateProtection(add_to_tracker, is_read, base, word_index, access_bits, mask) ==
    LET delta == IF add_to_tracker THEN 1 ELSE -1
        changed_bits == (IF add_to_tracker THEN access_bits ELSE Not(access_bits))
                        \cap mask
        addr == base + word_index * BYTES_PER_WORD
        runs == IteratePages(changed_bits)
    IN [i \in 1 .. Len(runs) |->
          [addr |-> addr + runs[i].offset * BYTES_PER_PAGE,
           size |-> runs[i].size * BYTES_PER_PAGE,
           delta |-> delta, is_read |-> is_read]]

\* the bitset selected by Span<type>()
Span(type, st) == IF type = "CPU" THEN st.cpu ELSE st.gpu

\* word[index] |= mask ; word[index] &= ~mask
OrMask(words, index, mask) == [words EXCEPT ![index] = @ \cup mask]
ClearMask(words, index, mask) == [words EXCEPT ![index] = @ \ mask]

\* The lambda ChangeRegionState hands to IterateWords, applied to one word;
\* st carries the four bitsets and the notifications sent so far.

\* faulty variant: the dirty branch forgets cpu[index] |= mask
ChangeRegionStateCpu_DropsCpuBit(is_dirty, base, st, w) ==
    IF is_dirty
    THEN [st EXCEPT !.watch = @ \o UpdateProtection(FALSE, FALSE, base, w.index,
                                                    st.write[w.index], w.mask),
                    !.write = OrMask(@, w.index, w.mask)]
    ELSE [st EXCEPT !.watch = @ \o UpdateProtection(TRUE, FALSE, base, w.index,
                                                    st.write[w.index], w.mask),
                    !.cpu = ClearMask(@, w.index, w.mask),
                    !.write = ClearMask(@, w.index, w.mask)]

\* faulty variant: UpdateProtection<is_dirty> in place of
\* UpdateProtection<!is_dirty>
ChangeRegionStateCpu_WrongPolarity(is_dirty, base, st, w) ==
    IF is_dirty
    THEN [st EXCEPT !.watch = @ \o UpdateProtection(TRUE, FALSE, base, w.index,
                                                    st.write[w.index], w.mask),
                    !.cpu = OrMask(@, w.index, w.mask),
                    !.write = OrMask(@, w.index, w.mask)]
    ELSE [st EXCEPT !.watch = @ \o UpdateProtection(FALSE, FALSE, base, w.index,
                                                    st.write[w.index], w.mask),
                    !.cpu = ClearMask(@, w.index, w.mask),
                    !.write = ClearMask(@, w.index, w.mask)]

\* the branch type == Type::CPU
ChangeRegionStateCpu(is_dirty, base, st, w) ==
    IF is_dirty
    THEN [st EXCEPT !.watch = @ \o UpdateProtection(FALSE, FALSE, base, w.index,
                                                    st.write[w.index], w.mask),
                    !.cpu = OrMask(@, w.index, w.mask),
                    !.write = OrMask(@, w.index, w.mask)]
    ELSE [st EXCEPT !.watch = @ \o UpdateProtection(TRUE, FALSE, base, w.index,
                                                    st.write[w.index], w.mask),
                    !.cpu = ClearMask(@, w.index, w.mask),
                    !.write = ClearMask(@, w.index, w.mask)]

\* faulty variant: forgets write[index] &= ~mask
ChangeRegionStateGpu_KeepsWrite(is_dirty, base, st, w) ==
    LET n1 == UpdateProtection(TRUE, FALSE, base, w.index, st.write[w.index], w.mask)
        n2 == UpdateProtection(is_dirty, TRUE, base, w.index, st.read[w.index], w.mask)
    IN IF is_dirty
       THEN [st EXCEPT !.watch = @ \o n1 \o n2,
                       !.gpu = OrMask(@, w.index, w.mask),
                       !.read = ClearMask(@, w.index, w.mask)]
       ELSE [st EXCEPT !.watch = @ \o n1 \o n2,
                       !.gpu = ClearMask(@, w.index, w.mask),
                       !.read = OrMask(@, w.index, w.mask)]

\* faulty variant: the clean branch forgets read[index] |= mask
ChangeRegionStateGpu_CleanKeepsRead(is_dirty, base, st, w) ==
    LET n1 == UpdateProtection(TRUE, FALSE, base, w.index, st.write[w.index], w.mask)
        n2 == UpdateProtection(is_dirty, TRUE, base, w.index, st.read[w.index], w.mask)
    IN IF is_dirty
       THEN [st EXCEPT !.watch = @ \o n1 \o n2,
                       !.write = ClearMask(@, w.index, w.mask),
                       !.gpu = OrMask(@, w.index, w.mask),
                       !.read = ClearMask(@, w.index, w.mask)]
       ELSE [st EXCEPT !.watch = @ \o n1 \o n2,
                       !.write = ClearMask(@, w.index, w.mask),
                       !.gpu = ClearMask(@, w.index, w.mask)]

\* faulty variant: the dirty branch forgets gpu[index] |= mask
ChangeRegionStateGpu_DirtyDropsGpuBit(is_dirty, base, st, w) ==
    LET n1 == UpdateProtection(TRUE, FALSE, base, w.index, st.write[w.index], w.mask)
        n2 == UpdateProtection(is_dirty, TRUE, base, w.index, st.read[w.index], w.mask)
    IN IF is_dirty
       THEN [st EXCEPT !.watch = @ \o n1 \o n2,
                       !.write = ClearMask(@, w.index, w.mask),
                       !.read = ClearMask(@, w.index, w.mask)]
       ELSE [st EXCEPT !.watch = @ \o n1 \o n2,
                       !.write = ClearMask(@, w.index, w.mask),
                       !.gpu = ClearMask(@, w.index, w.mask),
                       !.read = OrMask(@, w.index, w.mask)]

\* the branch type == Type::GPU
ChangeRegionStateGpu(is_dirty, base, st, w) ==
    LET n1 == UpdateProtection(TRUE, FALSE, base, w.index, st.write[w.index], w.mask)
        n2 == UpdateProtection(is_dirty, TRUE, base, w.index, st.read[w.index], w.mask)
    IN IF is_dirty
       THEN [st EXCEPT !.watch = @ \o n1 \o n2,
                       !.write = ClearMask(@, w.index, w.mask),
                       !.gpu = OrMask(@, w.index, w.mask),
                       !.read = ClearMask(@, w.index, w.mask)]
       ELSE [st EXCEPT !.watch = @ \o n1 \o n2,
                       !.write = ClearMask(@, w.index, w.mask),
                       !.gpu = ClearMask(@, w.index, w.mask),
                       !.read = OrMask(@, w.index, w.mask)]

ChangeRegionStateWord(type, is_dirty, base, st, w) ==
    IF type = "CPU"
    THEN ChangeRegionStateCpu(is_dirty, base, st, w)
    ELSE ChangeRegionStateGpu(is_dirty, base, st, w)

RECURSIVE ChangeRegionStateFold(_, _, _, _, _, _)
ChangeRegionStateFold(type, is_dirty, base, st, ws, i) ==
    IF i > Len(ws)
    THEN st
    ELSE ChangeRegionStateFold(type, is_dirty, base,
             ChangeRegionStateWord(type, is_dirty, base, st, ws[i]), ws, i + 1)

\* ChangeRegionState<type, is_dirty>(dirty_addr, size) on the region whose
\* bitsets are st and whose base is base: the bitsets after the call and the
\* notifications it sent, in order
ChangeRegionState(type, is_dirty, base, st, dirty_addr, size) ==
    ChangeRegionStateFold(type, is_dirty, base,
        [cpu |-> st.cpu, gpu |-> st.gpu, write |-> st.write, read |-> st.read,
         watch |-> <<>>],
        IterateWords(dirty_addr - base, size), 1)

\* whether page p (index inside the region) has its bit set in words
PageBit(words, p) == (p % PAGES_PER_WORD) \in words[p \div PAGES_PER_WORD]

\* release(): func(cpu_addr + pending_offset * BYTES_PER_PAGE, ...); the
\* record keeps, besides the arguments, the pages of the run whose modified
\* bit is still set when func runs
Release(type, base, f) ==
    [f EXCEPT !.calls = Append(@,
        [addr |-> base + f.pending_offset * BYTES_PER_PAGE,
         size |-> (f.pending_pointer - f.pending_offset) * BYTES_PER_PAGE,
         dirty |-> {p \in f.pending_offset .. (f.pending_pointer - 1) :
                       PageBit(Span(type, f), p)}])]

\* faulty variant: never extends the pending run
ForEachModifiedRangePage_NeverMerges(type, base, f, base_offset, run) ==
    IF ~f.pending
    THEN [f EXCEPT !.pending_offset = base_offset + run.offset,
                   !.pending_pointer = base_offset + run.offset + run.size,
                   !.pending = TRUE]
    ELSE [Release(type, base, f)
             EXCEPT !.pending_offset = base_offset + run.offset,
                    !.pending_pointer = base_offset + run.offset + run.size]

\* the lambda ForEachModifiedRange hands to IteratePages, for one run
ForEachModifiedRangePage(type, base, f, base_offset, run) ==
    IF ~f.pending
    THEN [f EXCEPT !.pending_offset = base_offset + run.offset,
                   !.pending_pointer = base_offset + run.offset + run.size,
                   !.pending = TRUE]
    ELSE IF f.pending_pointer = base_offset + run.offset
         THEN [f EXCEPT !.pending_pointer = @ + run.size]
         ELSE [Release(type, base, f)
                  EXCEPT !.pending_offset = base_offset + run.offset,
                         !.pending_pointer = base_offset + run.offset + run.size]

RECURSIVE ForEachModifiedRangePages(_, _, _, _, _, _)
ForEachModifiedRangePages(type, base, f, base_offset, runs, i) ==
    IF i > Len(runs)
    THEN f
    ELSE ForEachModifiedRangePages(type, base,
             ForEachModifiedRangePage(type, base, f, base_offset, runs[i]),
             base_offset, runs, i + 1)

\* faulty variant: forgets state_words[index] &= ~mask
ForEachModifiedRangeClear_KeepsModified(type, base, f, w) ==
    IF type = "CPU"
    THEN [f EXCEPT !.watch = @ \o UpdateProtection(TRUE, FALSE, base, w.index,
                                                   f.write[w.index], w.mask),
                   !.write = ClearMask(@, w.index, w.mask)]
    ELSE [f EXCEPT !.watch = @ \o UpdateProtection(FALSE, TRUE, base, w.index,
                                                   f.read[w.index], w.mask),
                   !.read = OrMask(@, w.index, w.mask)]

\* faulty variant: the CPU branch forgets write[index] &= ~mask
ForEachModifiedRangeClear_CpuKeepsWrite(type, base, f, w) ==
    IF type = "CPU"
    THEN [f EXCEPT !.watch = @ \o UpdateProtection(TRUE, FALSE, base, w.index,
                                                   f.write[w.index], w.mask),
                   !.cpu = ClearMask(@, w.index, w.mask)]
    ELSE [f EXCEPT !.watch = @ \o UpdateProtection(FALSE, TRUE, base, w.index,
                                                   f.read[w.index], w.mask),
                   !.read = OrMask(@, w.index, w.mask),
                   !.gpu = ClearMask(@, w.index, w.mask)]

\* faulty variant: the GPU branch forgets read[index] |= mask
ForEachModifiedRangeClear_GpuKeepsRead(type, base, f, w) ==
    IF type = "CPU"
    THEN [f EXCEPT !.watch = @ \o UpdateProtection(TRUE, FALSE, base, w.index,
                                                   f.write[w.index], w.mask),
                   !.write = ClearMask(@, w.index, w.mask),
                   !.cpu = ClearMask(@, w.index, w.mask)]
    ELSE [f EXCEPT !.watch = @ \o UpdateProtection(FALSE, TRUE, base, w.index,
                                                   f.read[w.index], w.mask),
                   !.gpu = ClearMask(@, w.index, w.mask)]

\* the clear branch of the lambda ForEachModifiedRange hands to IterateWords
ForEachModifiedRangeClear(type, base, f, w) ==
    IF type = "CPU"
    THEN [f EXCEPT !.watch = @ \o UpdateProtection(TRUE, FALSE, base, w.index,
                                                   f.write[w.index], w.mask),
                   !.write = ClearMask(@, w.index, w.mask),
                   !.cpu = ClearMask(@, w.index, w.mask)]
    ELSE [f EXCEPT !.watch = @ \o UpdateProtection(FALSE, TRUE, base, w.index,
                                                   f.read[w.index], w.mask),
                   !.read = OrMask(@, w.index, w.mask),
                   !.gpu = ClearMask(@, w.index, w.mask)]

\* faulty variant: the clear branch is taken whatever the clear flag is
ForEachModifiedRangeWord_AlwaysClears(type, clear, base, f, w) ==
    LET word == Span(type, f)[w.index] \cap w.mask
        f1 == ForEachModifiedRangeClear(type, base, f, w)
        base_offset == w.index * PAGES_PER_WORD
    IN ForEachModifiedRangePages(type, base, f1, base_offset, IteratePages(word), 1)

\* the lambda ForEachModifiedRange hands to IterateWords, for one word
ForEachModifiedRangeWord(type, clear, base, f, w) ==
    LET word == Span(type, f)[w.index] \cap w.mask
        f1 == IF clear THEN ForEachModifiedRangeClear(type, base, f, w) ELSE f
        base_offset == w.index * PAGES_PER_WORD
    IN ForEachModifiedRangePages(type, base, f1, base_offset, IteratePages(word), 1)

RECURSIVE ForEachModifiedRangeFold(_, _, _, _, _, _)
ForEachModifiedRangeFold(type, clear, base, f, ws, i) ==
    IF i > Len(ws)
    THEN f
    ELSE ForEachModifiedRangeFold(type, clear, base,
             ForEachModifiedRangeWord(type, clear, base, f, ws[i]), ws, i + 1)

\* ForEachModifiedRange<type, clear>(query_cpu_range, size, func): the
\* bitsets after the call, the notifications sent and the calls of func
ForEachModifiedRange(type, clear, base, st, query_cpu_range, size) ==
    LET f0 == [cpu |-> st.cpu, gpu |-> st.gpu, write |-> st.write,
               read |-> st.read, watch |-> <<>>, calls |-> <<>>,
               pending |-> FALSE, pending_offset |-> 0, pending_pointer |-> 0]
        f == ForEachModifiedRangeFold(type, clear, base, f0,
                 IterateWords(query_cpu_range - base, size), 1)
    IN IF f.pending THEN Release(type, base, f) ELSE f

\* faulty variant: tests state_words[index] without the mask
IsRegionModified_IgnoresMask(type, st, offset, size) ==
    LET ws == IterateWords(offset, size)
    IN \E i \in 1 .. Len(ws) : Span(type, st)[ws[i].index] # {}

\* IsRegionModified<type>(offset, size)
IsRegionModified(type, st, offset, size) ==
    LET ws == IterateWords(offset, size)
    IN \E i \in 1 .. Len(ws) : (Span(type, st)[ws[i].index] \cap ws[i].mask) # {}



\* ------------------------------------------------------------ BufferCache
CACHING_PAGEBITS == 12
CACHING_PAGESIZE == 2 ^ CACHING_PAGEBITS
NULL_BUFFER_ID == 0

\* pages of the guest address space the model keeps, and buffer slots
NumCachePages == 6
MaxBuffers == 3
CachePages == 0 .. (NumCachePages - 1)
BufferIds == 1 .. MaxBuffers

\* content of device memory that was never written
Undef == -1

DivCeil(n, d) == (n + d - 1) \div d
AlignDown(a) == (a \div CACHING_PAGESIZE) * CACHING_PAGESIZE
AlignUp(a) == DivCeil(a, CACHING_PAGESIZE) * CACHING_PAGESIZE

\* an empty slot
FreeSlot == [live |-> FALSE, cpu_addr |-> 0, size |-> 0,
             data |-> [k \in CachePages |-> Undef]]

\* BufferCache(...): no buffer, an empty page table
InitCache ==
    /\ page_table = [p \in CachePages |-> NULL_BUFFER_ID]
    /\ slot_buffers = [id \in BufferIds |-> FreeSlot]
    /\ memory = [p \in CachePages |-> 0]

\* page_table[page]: pages never written read as the null id
Entry(pt, page) == IF page \in DOMAIN pt THEN pt[page] ELSE NULL_BUFFER_ID

\* the pages [first, last] a buffer spans
BufferPages(b) ==
    (b.cpu_addr \div CACHING_PAGESIZE)
       .. (DivCeil(b.cpu_addr + b.size, CACHING_PAGESIZE) - 1)

\* ForEachBufferInRange: the buffer ids func is called with, in call order
RECURSIVE ForEachBufferInRangeLoop(_, _, _, _)
ForEachBufferInRangeLoop(pt, sb, page, page_end) ==
    IF page < page_end
    THEN LET buffer_id == Entry(pt, page)
         IN IF buffer_id = NULL_BUFFER_ID
            THEN ForEachBufferInRangeLoop(pt, sb, page + 1, page_end)
            ELSE <<buffer_id>>
                 \o ForEachBufferInRangeLoop(pt, sb,
                        DivCeil(sb[buffer_id].cpu_addr + sb[buffer_id].size,
                                CACHING_PAGESIZE),
                        page_end)
    ELSE <<>>

ForEachBufferInRange(pt, sb, device_addr, size) ==
    ForEachBufferInRangeLoop(pt, sb, device_addr \div CACHING_PAGESIZE,
                             DivCeil(device_addr + size, CACHING_PAGESIZE))

\* ResolveOverlaps: the buffers that own a page of the requested range, and
\* the page-aligned range that covers the request and all of them
ResolveOverlaps(pt, sb, device_addr, wanted_size) ==
    LET ids == {Entry(pt, p) :
                  p \in (device_addr \div CACHING_PAGESIZE)
                        .. (DivCeil(device_addr + wanted_size, CACHING_PAGESIZE) - 1)}
               \ {NULL_BUFFER_ID}
        begins == {AlignDown(device_addr)} \cup {sb[id].cpu_addr : id \in ids}
        ends == {AlignUp(device_addr + wanted_size)}
                \cup {sb[id].cpu_addr + sb[id].size : id \in ids}
    IN [ids |-> ids,
        begin |-> CHOOSE a \in begins : \A x \in begins : a <= x,
        end |-> CHOOSE a \in ends : \A x \in ends : a >= x]

\* ChangeRegister<insert>: the page-table entries of the buffer's pages are
\* set to its id (insert) or to the null id
ChangeRegister(insert, pt, sb, buffer_id) ==
    [p \in DOMAIN pt |->
        IF p \in BufferPages(sb[buffer_id])
        THEN (IF insert THEN buffer_id ELSE NULL_BUFFER_ID)
        ELSE pt[p]]

Register(pt, sb, buffer_id) == ChangeRegister(TRUE, pt, sb, buffer_id)
Unregister(pt, sb, buffer_id) == ChangeRegister(FALSE, pt, sb, buffer_id)

\* DeleteBuffer: the slot is released
DeleteBuffer(sb, buffer_id) == [sb EXCEPT ![buffer_id] = FreeSlot]

\* slot_buffers.insert: the first empty slot
FreeIds(sb) == {id \in BufferIds : ~sb[id].live}
NewId(sb) == CHOOSE id \in FreeIds(sb) : \A x \in FreeIds(sb) : id <= x

\* the device memory of the new buffer after the old buffer's content was
\* copied to the offset of its guest address
CopyForward(new, old) ==
    LET shift == (old.cpu_addr - new.cpu_addr) \div CACHING_PAGESIZE
        n == DivCeil(old.size, CACHING_PAGESIZE)
    IN [k \in DOMAIN new.data |->
          IF k >= shift /\ k < shift + n THEN old.data[k - shift] ELSE new.data[k]]

\* faulty variant: the old buffer is copied but neither unregistered nor
\* deleted
JoinOverlap_KeepsOldBuffer(c, new_buffer_id, overlap_id) ==
    LET sb == c.slot_buffers
    IN [page_table |-> c.page_table,
        slot_buffers |-> [sb EXCEPT ![new_buffer_id].data =
                             CopyForward(sb[new_buffer_id], sb[overlap_id])]]

\* faulty variant: the old buffer is unregistered and deleted, its content
\* is not copied
JoinOverlap_NoCopy(c, new_buffer_id, overlap_id) ==
    [page_table |-> Unregister(c.page_table, c.slot_buffers, overlap_id),
     slot_buffers |-> DeleteBuffer(c.slot_buffers, overlap_id)]

\* JoinOverlap: copy the old buffer into the new one, unregister and delete
\* the old one; c is the pair of page table and slots
JoinOverlap(c, new_buffer_id, overlap_id) ==
    LET sb == c.slot_buffers
        sb1 == [sb EXCEPT ![new_buffer_id].data =
                              CopyForward(sb[new_buffer_id], sb[overlap_id])]
    IN [page_table |-> Unregister(c.page_table, sb, overlap_id),
        slot_buffers |-> DeleteBuffer(sb1, overlap_id)]

RECURSIVE JoinOverlaps(_, _, _)
JoinOverlaps(c, new_buffer_id, ids) ==
    IF ids = {}
    THEN c
    ELSE LET id == CHOOSE x \in ids : \A y \in ids : x <= y
         IN JoinOverlaps(JoinOverlap(c, new_buffer_id, id), new_buffer_id, ids \ {id})

\* CreateBuffer on the resolved overlap: a new buffer over [begin, end), the
\* overlapped buffers joined into it, then the new buffer registered
CreateBuffer(c, overlap) ==
    LET new_buffer_id == NewId(c.slot_buffers)
        sb1 == [c.slot_buffers EXCEPT ![new_buffer_id] =
                   [live |-> TRUE, cpu_addr |-> overlap.begin,
                    size |-> overlap.end - overlap.begin,
                    data |-> [k \in CachePages |-> Undef]]]
        c1 == JoinOverlaps([page_table |-> c.page_table, slot_buffers |-> sb1],
                           new_buffer_id, overlap.ids)
    IN [page_table |-> Register(c1.page_table, c1.slot_buffers, new_buffer_id),
        slot_buffers |-> c1.slot_buffers,
        id |-> new_buffer_id]

\* whether the request needs a new buffer: no overlap, several overlapped
\* buffers, or one that does not cover the merged range
NeedsNewBuffer(sb, overlap) ==
    \/ Cardinality(overlap.ids) # 1
    \/ \E id \in overlap.ids :
          \/ sb[id].cpu_addr > overlap.begin
          \/ sb[id].cpu_addr + sb[id].size < overlap.end

\* the buffer memory after the guest bytes of the runs were copied into it
RECURSIVE Upload(_, _, _, _)
Upload(b, mem, calls, i) ==
    IF i > Len(calls)
    THEN b
    ELSE LET first == (calls[i].addr - b.cpu_addr) \div CACHING_PAGESIZE
             n == calls[i].size \div CACHING_PAGESIZE
             src == calls[i].addr \div CACHING_PAGESIZE
             b1 == [b EXCEPT !.data =
                      [k \in DOMAIN b.data |->
                          IF k >= first /\ k < first + n /\ (src + k - first) \in DOMAIN mem
                          THEN mem[src + k - first] ELSE b.data[k]]]
         IN Upload(b1, mem, calls, i + 1)

\* ObtainBuffer(gpu_addr, size, is_written): the cache, the region bitsets and
\* the result after the call
ObtainBuffer(c, base, st, mem, gpu_addr, size, is_written) ==
    LET overlap == ResolveOverlaps(c.page_table, c.slot_buffers, gpu_addr, size)
        c1 == IF NeedsNewBuffer(c.slot_buffers, overlap)
              THEN CreateBuffer(c, overlap)
              ELSE [page_table |-> c.page_table, slot_buffers |-> c.slot_buffers,
                    id |-> CHOOSE id \in overlap.ids : TRUE]
        \* SynchronizeBuffer
        f == ForEachModifiedRange("CPU", TRUE, base, st, gpu_addr, size)
        b == Upload(c1.slot_buffers[c1.id], mem, f.calls, 1)
        g == IF is_written
             THEN ChangeRegionState("GPU", TRUE, base, f, gpu_addr, size)
             ELSE [f EXCEPT !.watch = <<>>]
    IN [page_table |-> c1.page_table,
        slot_buffers |-> [c1.slot_buffers EXCEPT ![c1.id] = b],
        cpu |-> g.cpu, gpu |-> g.gpu, write |-> g.write, read |-> g.read,
        watch |-> f.watch \o g.watch, calls |-> f.calls,
        id |-> c1.id, offset |-> gpu_addr - b.cpu_addr,
        ids |-> overlap.ids,
        created |-> NeedsNewBuffer(c.slot_buffers, overlap)]

\* faulty variant: synchronizes as ObtainBuffer does, clearing the
\* CPU-modified bits
ObtainBufferForImage_ClearsModified(c, base, st, mem, gpu_addr, size) ==
    LET buffer_id == Entry(c.page_table, gpu_addr \div CACHING_PAGESIZE)
        in_bounds == /\ buffer_id # NULL_BUFFER_ID
                     /\ c.slot_buffers[buffer_id].cpu_addr <= gpu_addr
                     /\ gpu_addr + size <= c.slot_buffers[buffer_id].cpu_addr
                                           + c.slot_buffers[buffer_id].size
        f == ForEachModifiedRange("CPU", TRUE, base, st, gpu_addr, size)
    IN IF in_bounds
       THEN [slot_buffers |-> [c.slot_buffers EXCEPT ![buffer_id] =
                                  Upload(c.slot_buffers[buffer_id], mem, f.calls, 1)],
             cpu |-> f.cpu, gpu |-> f.gpu, write |-> f.write, read |-> f.read,
             watch |-> f.watch, calls |-> f.calls, id |-> buffer_id]
       ELSE [slot_buffers |-> c.slot_buffers,
             cpu |-> st.cpu, gpu |-> st.gpu, write |-> st.write, read |-> st.read,
             watch |-> <<>>, calls |-> <<>>, id |-> NULL_BUFFER_ID]

\* ObtainBufferForImage(gpu_addr, size): when a buffer holds the whole range,
\* the guest bytes of its CPU-modified pages are copied into it, the
\* modification state is left alone; otherwise the cache is not touched
ObtainBufferForImage(c, base, st, mem, gpu_addr, size) ==
    LET buffer_id == Entry(c.page_table, gpu_addr \div CACHING_PAGESIZE)
        in_bounds == /\ buffer_id # NULL_BUFFER_ID
                     /\ c.slot_buffers[buffer_id].cpu_addr <= gpu_addr
                     /\ gpu_addr + size <= c.slot_buffers[buffer_id].cpu_addr
                                           + c.slot_buffers[buffer_id].size
        f == ForEachModifiedRange("CPU", FALSE, base, st, gpu_addr, size)
    IN IF in_bounds
       THEN [slot_buffers |-> [c.slot_buffers EXCEPT ![buffer_id] =
                                  Upload(c.slot_buffers[buffer_id], mem, f.calls, 1)],
             cpu |-> f.cpu, gpu |-> f.gpu, write |-> f.write, read |-> f.read,
             watch |-> f.watch, calls |-> f.calls, id |-> buffer_id]
       ELSE [slot_buffers |-> c.slot_buffers,
             cpu |-> st.cpu, gpu |-> st.gpu, write |-> st.write, read |-> st.read,
             watch |-> <<>>, calls |-> <<>>, id |-> NULL_BUFFER_ID]

\* ------------------------------------------------- the region's operations
Types == {"CPU", "GPU"}

\* base of the region the RegionManager is constructed for
RegionBase == HIGHER_PAGE_SIZE

\* byte address of page p of the region, plus a byte offset inside the page
At(p, o) == RegionBase + p * BYTES_PER_PAGE + o

\* the [addr, size) arguments the operations are called with: pages 2..4,
\* pages 7..8, and a range that is not page aligned and crosses the boundary
\* between word 0 and word 1 (pages 0..65)
Ranges ==
    { [addr |-> At(2, 0), size |-> 3 * BYTES_PER_PAGE],
      [addr |-> At(7, 0), size |-> 2 * BYTES_PER_PAGE],
      [addr |-> At(0, 256), size |-> 65 * BYTES_PER_PAGE + 1] }

\* further ranges for the calls that only query: pages 0..9, pages 62..65, an
\* empty range
QueryRanges ==
    Ranges \cup
    { [addr |-> At(0, 0), size |-> 10 * BYTES_PER_PAGE],
      [addr |-> At(62, 2048), size |-> 3 * BYTES_PER_PAGE + 256],
      [addr |-> At(3, 0), size |-> 0] }

\* faulty variant: cpu.fill(0)
InitRegion_CpuClean(base) ==
    /\ cpu_addr = base
    /\ cpu = [i \in WordIdx |-> {}]
    /\ gpu = [i \in WordIdx |-> {}]
    /\ write = [i \in WordIdx |-> AllOnes]
    /\ read = [i \in WordIdx |-> AllOnes]

\* RegionManager(tracker_, cpu_addr_)
InitRegion(base) ==
    /\ cpu_addr = base
    /\ cpu = [i \in WordIdx |-> AllOnes]
    /\ gpu = [i \in WordIdx |-> {}]
    /\ write = [i \in WordIdx |-> AllOnes]
    /\ read = [i \in WordIdx |-> AllOnes]

Init ==
    /\ InitRegion(RegionBase)
    /\ InitCache
    /\ watch = <<>>
    /\ ranges = <<>>
    /\ last = [op |-> "none"]
    /\ pre = Bits
    /\ pending = <<>>
    /\ downloads = <<>>
    /\ InitLocks
    /\ InitExt

ChangeRegionStateAct(type, is_dirty, r) ==
    \E st \in {ChangeRegionState(type, is_dirty, cpu_addr, Bits, r.addr, r.size)} :
       /\ cpu' = st.cpu
       /\ gpu' = st.gpu
       /\ write' = st.write
       /\ read' = st.read
       /\ watch' = st.watch
       /\ watchers' = Notify(watchers, st.watch)
       /\ ranges' = <<>>
       /\ last' = [op |-> "ChangeRegionState", type |-> type, flag |-> is_dirty,
                   addr |-> r.addr, size |-> r.size,
                   \* the call repeats the call before it
                   again |-> /\ last.op = "ChangeRegionState"
                             /\ last.type = type /\ last.flag = is_dirty
                             /\ last.addr = r.addr /\ last.size = r.size]
       /\ pre' = Bits
       /\ UNCHANGED <<extVars, cpu_addr, cacheVars, dlVars, lockVars>>

ForEachModifiedRangeAct(type, clear, r) ==
    \E f \in {ForEachModifiedRange(type, clear, cpu_addr, Bits, r.addr, r.size)} :
       /\ cpu' = f.cpu
       /\ gpu' = f.gpu
       /\ write' = f.write
       /\ read' = f.read
       /\ watch' = f.watch
       /\ watchers' = Notify(watchers, f.watch)
       /\ ranges' = f.calls
       /\ last' = [op |-> "ForEachModifiedRange", type |-> type, flag |-> clear,
                   addr |-> r.addr, size |-> r.size,
                   \* the call is the first call on the RegionManager
                   first |-> last.op = "none",
                   \* the call repeats the call before it, whose calls of func
                   \* were prev
                   again |-> /\ last.op = "ForEachModifiedRange"
                             /\ last.type = type /\ last.flag = clear
                             /\ last.addr = r.addr /\ last.size = r.size,
                   prev |-> IF /\ last.op = "ForEachModifiedRange"
                               /\ last.type = type /\ last.flag = clear
                               /\ last.addr = r.addr /\ last.size = r.size
                            THEN ranges ELSE <<>>]
       /\ pre' = Bits
       /\ UNCHANGED <<extVars, cpu_addr, cacheVars, dlVars, lockVars>>

\* IsRegionModified<type>(offset, size) with offset = r.addr - cpu_addr
IsRegionModifiedAct(type, r) ==
    /\ last' = [op |-> "IsRegionModified", type |-> type,
                addr |-> r.addr, size |-> r.size,
                result |-> IsRegionModified(type, Bits, r.addr - cpu_addr, r.size)]
    /\ watch' = <<>>
    /\ watchers' = Notify(watchers, <<>>)
    /\ ranges' = <<>>
    /\ pre' = Bits
    /\ UNCHANGED <<extVars, cpu_addr, cpu, gpu, write, read, cacheVars, dlVars, lockVars>>

Next ==
    \/ \E type \in Types, is_dirty \in BOOLEAN, r \in Ranges :
          ChangeRegionStateAct(type, is_dirty, r)
    \/ \E type \in Types, r \in Ranges :
          ForEachModifiedRangeAct(type, TRUE, r)
    \/ \E type \in Types, r \in QueryRanges :
          ForEachModifiedRangeAct(type, FALSE, r)
    \/ \E type \in Types, r \in QueryRanges :
          IsRegionModifiedAct(type, r)

Spec == Init /\ [][Next]_vars

\* ------------------------- the region's operations, ranges off the region
\* ranges that leave the region [RegionBase, RegionBase + HIGHER_PAGE_SIZE):
\* one that starts two pages below it and ends inside page 2, one that
\* starts at page 1022 and ends two pages past it, one that ends at its
\* base, one that starts at its end, and an empty one
ClipRanges ==
    { [addr |-> RegionBase - 2 * BYTES_PER_PAGE, size |-> 4 * BYTES_PER_PAGE + 100],
      [addr |-> At(1022, 0), size |-> 4 * BYTES_PER_PAGE],
      [addr |-> RegionBase - 2 * BYTES_PER_PAGE, size |-> 2 * BYTES_PER_PAGE],
      [addr |-> RegionBase + HIGHER_PAGE_SIZE, size |-> BYTES_PER_PAGE],
      [addr |-> At(1, 0), size |-> 0] }

NextClip ==
    \/ \E type \in Types, is_dirty \in BOOLEAN, r \in ClipRanges :
          ChangeRegionStateAct(type, is_dirty, r)
    \/ \E type \in Types, clear \in BOOLEAN, r \in ClipRanges :
          ForEachModifiedRangeAct(type, clear, r)
    \/ \E type \in Types, r \in ClipRanges :
          IsRegionModifiedAct(type, r)

SpecClip == Init /\ [][NextClip]_vars

\* --------------------------------------------- the cache's operations
\* the [addr, size) arguments of the cache operations: page 1, page 2, and a
\* range from the middle of page 1 to the middle of page 2
CacheRanges ==
    { [addr |-> CACHING_PAGESIZE, size |-> CACHING_PAGESIZE],
      [addr |-> 2 * CACHING_PAGESIZE, size |-> CACHING_PAGESIZE],
      [addr |-> CACHING_PAGESIZE + CACHING_PAGESIZE \div 2, size |-> CACHING_PAGESIZE] }

\* the pages that overlap [addr, addr + size)
PagesIn(addr, size) ==
    {p \in CachePages : /\ size > 0
                        /\ p * CACHING_PAGESIZE < addr + size
                        /\ addr < (p + 1) * CACHING_PAGESIZE}

Cache == [page_table |-> page_table, slot_buffers |-> slot_buffers]

InitC ==
    /\ InitRegion(0)
    /\ InitCache
    /\ watch = <<>>
    /\ ranges = <<>>
    /\ last = [op |-> "none", chain |-> 0]
    /\ pre = Bits
    /\ pending = <<>>
    /\ downloads = <<>>
    /\ InitLocks
    /\ InitExt

\* the guest writes bytes that differ from the ones in memory to [addr, addr + size)
GuestWriteAct(r) ==
    /\ memory' = [p \in CachePages |->
                    IF p \in PagesIn(r.addr, r.size) THEN 1 - memory[p] ELSE memory[p]]
    /\ last' = [op |-> "GuestWrite", addr |-> r.addr, size |-> r.size, chain |-> 1]
    /\ watch' = <<>>
    /\ watchers' = Notify(watchers, <<>>)
    /\ ranges' = <<>>
    /\ pre' = Bits
    /\ UNCHANGED <<extVars, cpu_addr, cpu, gpu, write, read, page_table, slot_buffers, dlVars, lockVars>>

\* InvalidateMemory(device_addr, size)
InvalidateMemoryAct(r) ==
    \E st \in {ChangeRegionState("CPU", TRUE, cpu_addr, Bits, r.addr, r.size)} :
       /\ cpu' = st.cpu
       /\ gpu' = st.gpu
       /\ write' = st.write
       /\ read' = st.read
       /\ watch' = st.watch
       /\ watchers' = Notify(watchers, st.watch)
       /\ ranges' = <<>>
       /\ last' = [op |-> "InvalidateMemory", addr |-> r.addr, size |-> r.size,
                   before |-> [page_table |-> page_table,
                               slot_buffers |-> slot_buffers, memory |-> memory],
                   chain |-> IF /\ last.op = "GuestWrite"
                                /\ last.addr = r.addr /\ last.size = r.size
                             THEN 2 ELSE 0]
       /\ pre' = Bits
       /\ UNCHANGED <<extVars, cpu_addr, cacheVars, dlVars, lockVars>>

\* ObtainBuffer(gpu_addr, size, is_written)
ObtainBufferAct(r, is_written) ==
    /\ FreeIds(slot_buffers) # {}
    /\ \E o \in {ObtainBuffer(Cache, cpu_addr, Bits, memory, r.addr, r.size, is_written)} :
          /\ page_table' = o.page_table
          /\ slot_buffers' = o.slot_buffers
          /\ cpu' = o.cpu
          /\ gpu' = o.gpu
          /\ write' = o.write
          /\ read' = o.read
          /\ watch' = o.watch
          /\ watchers' = Notify(watchers, o.watch)
          /\ ranges' = o.calls
          /\ last' = [op |-> "ObtainBuffer", addr |-> r.addr, size |-> r.size,
                      flag |-> is_written, id |-> o.id, offset |-> o.offset,
                      fresh |-> (FreeIds(slot_buffers) = BufferIds),
                      created |-> o.created,
                      old |-> [id \in o.ids |-> slot_buffers[id]],
                      chain |-> IF /\ last.op = "InvalidateMemory" /\ last.chain = 2
                                   /\ last.addr = r.addr /\ last.size = r.size
                                THEN 3 ELSE 0]
          /\ pre' = Bits
          /\ UNCHANGED <<extVars, cpu_addr, memory, dlVars, lockVars>>

\* the buffers of the slots, without their device memory
BufferSet(sb) ==
    {[id |-> id, cpu_addr |-> sb[id].cpu_addr, size |-> sb[id].size] :
        id \in {x \in BufferIds : sb[x].live}}

\* ObtainBufferForImage(gpu_addr, size)
ObtainBufferForImageAct(r) ==
    /\ \E o \in {ObtainBufferForImage(Cache, cpu_addr, Bits, memory, r.addr, r.size)} :
          /\ slot_buffers' = o.slot_buffers
          /\ cpu' = o.cpu
          /\ gpu' = o.gpu
          /\ write' = o.write
          /\ read' = o.read
          /\ watch' = o.watch
          /\ watchers' = Notify(watchers, o.watch)
          /\ ranges' = o.calls
          /\ last' = [op |-> "ObtainBufferForImage", addr |-> r.addr, size |-> r.size,
                      id |-> o.id, chain |-> 0,
                      before |-> [page_table |-> page_table,
                                  buffers |-> BufferSet(slot_buffers)]]
    /\ pre' = Bits
    /\ UNCHANGED <<extVars, cpu_addr, page_table, memory, dlVars, lockVars>>

NextC ==
    \/ \E r \in CacheRanges : GuestWriteAct(r)
    \/ \E r \in CacheRanges : InvalidateMemoryAct(r)
    \/ \E r \in CacheRanges, is_written \in BOOLEAN : ObtainBufferAct(r, is_written)
    \/ \E r \in CacheRanges : ObtainBufferForImageAct(r)

SpecCache == InitC /\ [][NextC]_vars

\* ------------------------------------------------- ForEachBufferInRange
\* the ranges ObtainBuffer is called with before a scan: page 1, pages 3..4,
\* page 4
ScanObtainRanges ==
    { [addr |-> CACHING_PAGESIZE, size |-> CACHING_PAGESIZE],
      [addr |-> 3 * CACHING_PAGESIZE, size |-> 2 * CACHING_PAGESIZE],
      [addr |-> 4 * CACHING_PAGESIZE, size |-> CACHING_PAGESIZE] }

\* the ranges of the scans: pages 0..5, pages 2..3, page 4, the second half
\* of page 1 up to the first half of page 3, and two empty ranges, one in
\* the middle of page 1 and one at the start of page 3
ScanRanges ==
    { [addr |-> 0, size |-> 6 * CACHING_PAGESIZE],
      [addr |-> 2 * CACHING_PAGESIZE, size |-> 2 * CACHING_PAGESIZE],
      [addr |-> 4 * CACHING_PAGESIZE, size |-> CACHING_PAGESIZE],
      [addr |-> CACHING_PAGESIZE + CACHING_PAGESIZE \div 2, size |-> 2 * CACHING_PAGESIZE],
      [addr |-> CACHING_PAGESIZE + CACHING_PAGESIZE \div 2, size |-> 0],
      [addr |-> 3 * CACHING_PAGESIZE, size |-> 0] }

\* faulty variant: after func the scan goes on with the next page
ForEachBufferInRangeStep_NextPage(pt, sb, page) ==
    LET buffer_id == Entry(pt, page)
    IN IF buffer_id = NULL_BUFFER_ID
       THEN [page |-> page + 1, ids |-> <<>>]
       ELSE [page |-> page + 1, ids |-> <<buffer_id>>]

\* one iteration of the for loop of ForEachBufferInRange: the next value of
\* page and the buffer func is called with, if any
ForEachBufferInRangeStep(pt, sb, page) ==
    LET buffer_id == Entry(pt, page)
    IN IF buffer_id = NULL_BUFFER_ID
       THEN [page |-> page + 1, ids |-> <<>>]
       ELSE [page |-> DivCeil(sb[buffer_id].cpu_addr + sb[buffer_id].size,
                              CACHING_PAGESIZE),
             ids |-> <<buffer_id>>]

\* a scan is inside its loop
Scanning == last.op = "ForEachBufferInRange" /\ ~last.returned

\* ForEachBufferInRange(device_addr, size, func), entry; prev is the value
\* of page before the last iteration (-1: no iteration yet)
ForEachBufferInRangeCallAct(r) ==
    /\ ~Scanning
    /\ last' = [op |-> "ForEachBufferInRange", addr |-> r.addr, size |-> r.size,
                page |-> r.addr \div CACHING_PAGESIZE,
                page_end |-> DivCeil(r.addr + r.size, CACHING_PAGESIZE),
                prev |-> -1, calls |-> <<>>, returned |-> FALSE, chain |-> 0]
    /\ UNCHANGED <<extVars, cpu_addr, cpu, gpu, write, read, watch, watchers, ranges, pre,
                   cacheVars, dlVars, lockVars>>

\* one iteration of the loop
ForEachBufferInRangeStepAct ==
    /\ Scanning
    /\ last.page < last.page_end
    /\ LET n == ForEachBufferInRangeStep(page_table, slot_buffers, last.page)
       IN last' = [last EXCEPT !.prev = last.page,
                               !.page = n.page,
                               !.calls = @ \o n.ids]
    /\ UNCHANGED <<extVars, cpu_addr, cpu, gpu, write, read, watch, watchers, ranges, pre,
                   cacheVars, dlVars, lockVars>>

\* the loop condition fails and the scan returns
ForEachBufferInRangeReturnAct ==
    /\ Scanning
    /\ last.page >= last.page_end
    /\ last' = [last EXCEPT !.returned = TRUE]
    /\ UNCHANGED <<extVars, cpu_addr, cpu, gpu, write, read, watch, watchers, ranges, pre,
                   cacheVars, dlVars, lockVars>>

NextScan ==
    \/ \E r \in ScanObtainRanges : ~Scanning /\ ObtainBufferAct(r, FALSE)
    \/ \E r \in ScanRanges : ForEachBufferInRangeCallAct(r)
    \/ ForEachBufferInRangeStepAct
    \/ ForEachBufferInRangeReturnAct

SpecScan == InitC /\ [][NextScan]_vars

\* ------------------------------------------- ReadMemory and the downloads
\* the [addr, size) arguments of the read scenario: page 4 (0x4000, 0x1000)
\* and pages 3..5
ReadRanges ==
    { [addr |-> 4 * CACHING_PAGESIZE, size |-> CACHING_PAGESIZE],
      [addr |-> 3 * CACHING_PAGESIZE, size |-> 3 * CACHING_PAGESIZE] }

\* the caller is inside ReadMemory, waiting for its downloads
Blocked == last.op = "ReadMemory" /\ ~last.returned

\* the GPU writes the device memory of a page it was given for writing
GpuWriteAct(p) ==
    /\ PageBit(gpu, p)
    /\ page_table[p] # NULL_BUFFER_ID
    /\ slot_buffers' =
          [slot_buffers EXCEPT ![page_table[p]].data[
               p - slot_buffers[page_table[p]].cpu_addr \div CACHING_PAGESIZE] = 1 - @]
    /\ UNCHANGED <<extVars, cpu_addr, cpu, gpu, write, read, watch, watchers, ranges, last, pre,
                   page_table, memory, dlVars, lockVars>>

\* DownloadBufferMemory over one run: guest memory receives the device
\* memory of the run's pages
DownloadBufferMemory(pt, sb, mem, run) ==
    [p \in DOMAIN mem |->
        IF /\ p \in PagesIn(run.addr, run.size)
           /\ pt[p] # NULL_BUFFER_ID
        THEN sb[pt[p]].data[p - sb[pt[p]].cpu_addr \div CACHING_PAGESIZE]
        ELSE mem[p]]

\* ReadMemory(device_addr, size), the call: ForEachModifiedRange<GPU, true>
\* over the range, a download requested for every run it yields
ReadMemoryAct(r) ==
    /\ ~Blocked
    /\ \E f \in {ForEachModifiedRange("GPU", TRUE, cpu_addr, Bits, r.addr, r.size)} :
          /\ cpu' = f.cpu
          /\ gpu' = f.gpu
          /\ write' = f.write
          /\ read' = f.read
          /\ watch' = f.watch
          /\ watchers' = Notify(watchers, f.watch)
          /\ ranges' = f.calls
          /\ pending' = [i \in 1 .. Len(f.calls) |->
                            [addr |-> f.calls[i].addr, size |-> f.calls[i].size]]
    /\ downloads' = <<>>
    /\ last' = [op |-> "ReadMemory", addr |-> r.addr, size |-> r.size,
                returned |-> FALSE,
                step |-> IF /\ last.op = "ObtainBuffer" /\ last.fresh /\ last.flag
                            /\ last.addr = r.addr /\ last.size = r.size
                         THEN 1
                         ELSE IF /\ last.op = "ReadMemory" /\ last.step = 1
                                 /\ last.addr = r.addr /\ last.size = r.size
                              THEN 2 ELSE 0]
    /\ pre' = Bits
    /\ UNCHANGED <<extVars, cpu_addr, cacheVars, lockVars>>

\* the device completes the oldest download ReadMemory waits for
DownloadCompleteAct ==
    /\ pending # <<>>
    /\ memory' = DownloadBufferMemory(page_table, slot_buffers, memory, Head(pending))
    /\ downloads' = Append(downloads, Head(pending))
    /\ pending' = Tail(pending)
    /\ UNCHANGED <<extVars, cpu_addr, cpu, gpu, write, read, watch, watchers, ranges, last, pre,
                   page_table, slot_buffers, lockVars>>

\* ReadMemory returns once no download is outstanding
ReadMemoryReturnAct ==
    /\ Blocked
    /\ pending = <<>>
    /\ last' = [last EXCEPT !.returned = TRUE]
    /\ UNCHANGED <<extVars, cpu_addr, cpu, gpu, write, read, watch, watchers, ranges, pre,
                   cacheVars, dlVars, lockVars>>

NextR ==
    \/ \E r \in ReadRanges, is_written \in BOOLEAN :
          ~Blocked /\ ObtainBufferAct(r, is_written)
    \/ \E p \in CachePages : GpuWriteAct(p)
    \/ \E r \in ReadRanges : ReadMemoryAct(r)
    \/ DownloadCompleteAct
    \/ ReadMemoryReturnAct

SpecRead == InitC /\ [][NextR]_vars

\* --------------------------------- the region's operations, two threads
\* Each thread calls ChangeRegionState, ForEachModifiedRange and
\* IsRegionModified; a call advances one word of IterateWords at a time.
\* The notifications and the calls of func are those of the sequential
\* operations above and are not recorded here.
\* ChangeRegionState and ForEachModifiedRange take the lock on entry
\* (std::scoped_lock lk{lock}) and release it on return; IsRegionModified
\* takes no lock.

\* the range of the concurrent calls: pages 63..64, the last page of word 0
\* and the first page of word 1; and page 64 alone
LockRanges ==
    { [addr |-> At(63, 0), size |-> 2 * BYTES_PER_PAGE],
      [addr |-> At(64, 0), size |-> BYTES_PER_PAGE] }

LockedOps == {"ChangeRegionState", "ForEachModifiedRange"}

\* the words IterateWords hands to the lambda of call c
Words(c) == IterateWords(c.addr - cpu_addr, c.size)

\* the call of thread t has words left to visit
InLoop(t) == thr[t].pc = "run" /\ thr[t].i <= Len(Words(thr[t]))

\* another thread holds the lock and its next step writes word index: a read
\* of that word without the lock is a data race
Racing(t, index) ==
    \E u \in Threads \ {t} :
       /\ lock = u
       /\ InLoop(u)
       /\ Words(thr[u])[thr[u].i].index = index

\* entry of a call
RegionCallAct(t, op, type, flag, r) ==
    /\ thr[t].pc = "idle"
    /\ op \in LockedOps => lock = NoThread
    /\ lock' = IF op \in LockedOps THEN t ELSE lock
    /\ thr' = [thr EXCEPT ![t] =
                 [pc |-> "run", op |-> op, type |-> type, flag |-> flag,
                  addr |-> r.addr, size |-> r.size, i |-> 1, pending |-> FALSE,
                  pending_offset |-> 0, pending_pointer |-> 0, result |-> FALSE]]
    /\ UNCHANGED <<extVars, cpu_addr, cpu, gpu, write, read, watch, watchers, ranges, last, pre,
                   cacheVars, dlVars, mutex>>

\* the locals of call c and the bitsets, as the lambdas take them
Frame(c) ==
    [cpu |-> cpu, gpu |-> gpu, write |-> write, read |-> read,
     watch |-> <<>>, calls |-> <<>>, pending |-> c.pending,
     pending_offset |-> c.pending_offset, pending_pointer |-> c.pending_pointer]

\* one call of the lambda of a locked operation, on the next word
LockedWordAct(t) ==
    /\ InLoop(t)
    /\ thr[t].op \in LockedOps
    /\ \E f \in {IF thr[t].op = "ChangeRegionState"
                  THEN ChangeRegionStateWord(thr[t].type, thr[t].flag, cpu_addr,
                           Frame(thr[t]), Words(thr[t])[thr[t].i])
                  ELSE ForEachModifiedRangeWord(thr[t].type, thr[t].flag, cpu_addr,
                           Frame(thr[t]), Words(thr[t])[thr[t].i])} :
          /\ cpu' = f.cpu
          /\ gpu' = f.gpu
          /\ write' = f.write
          /\ read' = f.read
          /\ thr' = [thr EXCEPT ![t].i = @ + 1,
                                ![t].pending = f.pending,
                                ![t].pending_offset = f.pending_offset,
                                ![t].pending_pointer = f.pending_pointer]
    /\ UNCHANGED <<extVars, cpu_addr, watch, watchers, ranges, last, pre, cacheVars, dlVars, lock, mutex>>

\* one call of the lambda of IsRegionModified, on the next word; a racing
\* read yields either outcome
IsRegionModifiedWordAct(t) ==
    /\ InLoop(t)
    /\ thr[t].op = "IsRegionModified"
    /\ \E nonzero \in
           (IF Racing(t, Words(thr[t])[thr[t].i].index)
            THEN BOOLEAN
            ELSE {(Span(thr[t].type, Bits)[Words(thr[t])[thr[t].i].index]
                   \cap Words(thr[t])[thr[t].i].mask) # {}}) :
          thr' = [thr EXCEPT ![t].result = nonzero,
                             ![t].i = IF nonzero THEN Len(Words(thr[t])) + 1
                                                 ELSE @ + 1]
    /\ UNCHANGED <<extVars, cpu_addr, cpu, gpu, write, read, watch, watchers, ranges, last, pre,
                   cacheVars, dlVars, lock, mutex>>

\* return of a call: the lock is given back
RegionReturnAct(t) ==
    /\ thr[t].pc = "run"
    /\ ~InLoop(t)
    /\ lock' = IF lock = t THEN NoThread ELSE lock
    /\ thr' = [thr EXCEPT ![t] = Idle]
    /\ UNCHANGED <<extVars, cpu_addr, cpu, gpu, write, read, watch, watchers, ranges, last, pre,
                   cacheVars, dlVars, mutex>>

NextL ==
    \/ \E t \in Threads, type \in Types, flag \in BOOLEAN, r \in LockRanges :
          RegionCallAct(t, "ChangeRegionState", type, flag, r)
    \/ \E t \in Threads, type \in Types, flag \in BOOLEAN, r \in LockRanges :
          RegionCallAct(t, "ForEachModifiedRange", type, flag, r)
    \/ \E t \in Threads, type \in Types, r \in LockRanges :
          RegionCallAct(t, "IsRegionModified", type, FALSE, r)
    \/ \E t \in Threads : LockedWordAct(t)
    \/ \E t \in Threads : IsRegionModifiedWordAct(t)
    \/ \E t \in Threads : RegionReturnAct(t)

SpecLock == Init /\ [][NextL]_vars

\* ------------------------------------- a mark racing a scan, two threads
\* Thread 1 calls ChangeRegionState<CPU, true> on page 64; thread 2 calls
\* ForEachModifiedRange<CPU, true> over pages 63..64. Both take the lock on
\* entry. The lambda of the scan is two steps: the read of the word of
\* modified bits (line 182), then the clear and the walk over the runs of
\* the word read (lines 183-210). Before a race, with both threads idle,
\* ChangeRegionState<CPU, *> calls set the pages up. The notifications of
\* the two racing calls are added to the running sums, not kept in watch.
MarkRange == [addr |-> At(64, 0), size |-> BYTES_PER_PAGE]
ScanRange == [addr |-> At(63, 0), size |-> 2 * BYTES_PER_PAGE]
Marker == 1
Scanner == 2

\* faulty variant: the lock is handed out while it is held
LockFree_Always(l) == TRUE

\* std::scoped_lock lk{lock} can be entered
LockFree(l) == l = NoThread

\* the mark of thread 1 has been applied to the bitsets
MarkApplied == thr[Marker].pc \in {"run", "done"} /\ ~InLoop(Marker)

RaceSetupAct(is_dirty, r) ==
    /\ \A t \in Threads : thr[t].pc = "idle"
    /\ ChangeRegionStateAct("CPU", is_dirty, r)

MarkCallAct ==
    /\ thr[Marker].pc = "idle"
    /\ LockFree(lock)
    /\ lock' = Marker
    /\ thr' = [thr EXCEPT ![Marker] =
                 [pc |-> "run", op |-> "ChangeRegionState", type |-> "CPU",
                  flag |-> TRUE, addr |-> MarkRange.addr, size |-> MarkRange.size,
                  i |-> 1, pending |-> FALSE, pending_offset |-> 0,
                  pending_pointer |-> 0]]
    /\ UNCHANGED <<extVars, cpu_addr, cpu, gpu, write, read, watch, watchers, ranges, last, pre,
                   cacheVars, dlVars, mutex>>

\* the lambda of ChangeRegionState on the next word
MarkWordAct ==
    /\ InLoop(Marker)
    /\ \E st \in {ChangeRegionStateWord("CPU", TRUE, cpu_addr, Frame(thr[Marker]),
                                         Words(thr[Marker])[thr[Marker].i])} :
          /\ cpu' = st.cpu
          /\ gpu' = st.gpu
          /\ write' = st.write
          /\ read' = st.read
          /\ watchers' = Notify(watchers, st.watch)
    /\ thr' = [thr EXCEPT ![Marker].i = @ + 1]
    /\ UNCHANGED <<extVars, cpu_addr, watch, ranges, last, pre, cacheVars, dlVars,
                   lock, mutex>>

ScanCallAct ==
    /\ thr[Scanner].pc = "idle"
    /\ LockFree(lock)
    /\ lock' = Scanner
    /\ thr' = [thr EXCEPT ![Scanner] =
                 [pc |-> "run", op |-> "ForEachModifiedRange", type |-> "CPU",
                  flag |-> TRUE, addr |-> ScanRange.addr, size |-> ScanRange.size,
                  i |-> 1, pending |-> FALSE, pending_offset |-> 0,
                  pending_pointer |-> 0, phase |-> "read", word |-> {},
                  calls |-> <<>>, marked |-> FALSE]]
    /\ UNCHANGED <<extVars, cpu_addr, cpu, gpu, write, read, watch, watchers, ranges, last, pre,
                   cacheVars, dlVars, mutex>>

\* const u64 word = state_words[index] & mask; marked: the word of page 64
\* was read after the mark was applied
ScanReadAct ==
    /\ InLoop(Scanner)
    /\ thr[Scanner].phase = "read"
    /\ LET w == Words(thr[Scanner])[thr[Scanner].i]
       IN thr' = [thr EXCEPT ![Scanner].word = cpu[w.index] \cap w.mask,
                             ![Scanner].marked = @ \/ (w.index = 1 /\ MarkApplied),
                             ![Scanner].phase = "clear"]
    /\ UNCHANGED <<extVars, cpu_addr, cpu, gpu, write, read, watch, watchers, ranges, last, pre,
                   cacheVars, dlVars, lock, mutex>>

\* the rest of the lambda: the clear branch, then IteratePages over the word
\* that was read
ScanClearAct ==
    /\ InLoop(Scanner)
    /\ thr[Scanner].phase = "clear"
    /\ LET c == thr[Scanner]
           w == Words(c)[c.i]
       IN \E f \in {ForEachModifiedRangePages("CPU", cpu_addr,
                        ForEachModifiedRangeClear("CPU", cpu_addr,
                            [Frame(c) EXCEPT !.calls = c.calls], w),
                        w.index * PAGES_PER_WORD, IteratePages(c.word), 1)} :
             /\ cpu' = f.cpu
             /\ gpu' = f.gpu
             /\ write' = f.write
             /\ read' = f.read
             /\ watchers' = Notify(watchers, f.watch)
             /\ thr' = [thr EXCEPT ![Scanner].i = @ + 1,
                                   ![Scanner].phase = "read",
                                   ![Scanner].pending = f.pending,
                                   ![Scanner].pending_offset = f.pending_offset,
                                   ![Scanner].pending_pointer = f.pending_pointer,
                                   ![Scanner].calls = f.calls]
    /\ UNCHANGED <<extVars, cpu_addr, watch, ranges, last, pre, cacheVars, dlVars,
                   lock, mutex>>

\* return of the mark: the lock is given back
MarkReturnAct ==
    /\ thr[Marker].pc = "run"
    /\ ~InLoop(Marker)
    /\ lock' = IF lock = Marker THEN NoThread ELSE lock
    /\ thr' = [thr EXCEPT ![Marker].pc = "done"]
    /\ UNCHANGED <<extVars, cpu_addr, cpu, gpu, write, read, watch, watchers, ranges, last, pre,
                   cacheVars, dlVars, mutex>>

\* return of the scan: if (pending) release(); the lock is given back
ScanReturnAct ==
    /\ thr[Scanner].pc = "run"
    /\ ~InLoop(Scanner)
    /\ lock' = IF lock = Scanner THEN NoThread ELSE lock
    /\ LET c == thr[Scanner]
           f == [Frame(c) EXCEPT !.calls = c.calls]
       IN thr' = [thr EXCEPT ![Scanner].pc = "done",
                             ![Scanner].calls = IF c.pending
                                                THEN Release("CPU", cpu_addr, f).calls
                                                ELSE c.calls]
    /\ UNCHANGED <<extVars, cpu_addr, cpu, gpu, write, read, watch, watchers, ranges, last, pre,
                   cacheVars, dlVars, mutex>>

\* both calls have returned; the threads go on to the next race
RaceResetAct ==
    /\ \A t \in Threads : thr[t].pc = "done"
    /\ thr' = [t \in Threads |-> Idle]
    /\ UNCHANGED <<extVars, cpu_addr, cpu, gpu, write, read, watch, watchers, ranges, last, pre,
                   cacheVars, dlVars, lock, mutex>>

NextRace ==
    \/ \E is_dirty \in BOOLEAN, r \in LockRanges : RaceSetupAct(is_dirty, r)
    \/ MarkCallAct
    \/ MarkWordAct
    \/ MarkReturnAct
    \/ ScanCallAct
    \/ ScanReadAct
    \/ ScanClearAct
    \/ ScanReturnAct
    \/ RaceResetAct

SpecRace == Init /\ [][NextRace]_vars

\* ------------------------------- the cache's page table, two threads
\* A thread that creates a buffer (and merges the buffers it overlaps) holds
\* the structural lock exclusively and writes the page table one entry at a
\* time; a lookup holds the lock in shared mode and reads one entry at a time.

\* the ranges buffers are created for (pages 3..4, page 4, pages 4..5) and
\* the range the lookups walk (pages 3..5)
StructRanges ==
    { [addr |-> 3 * CACHING_PAGESIZE, size |-> 2 * CACHING_PAGESIZE],
      [addr |-> 4 * CACHING_PAGESIZE, size |-> CACHING_PAGESIZE],
      [addr |-> 4 * CACHING_PAGESIZE, size |-> 2 * CACHING_PAGESIZE] }
LookupRanges ==
    { [addr |-> 3 * CACHING_PAGESIZE, size |-> 3 * CACHING_PAGESIZE] }

\* faulty variant: a lookup does not wait for the exclusive holder
CanLockShared_IgnoresWriter(m) == TRUE

\* std::shared_lock / std::scoped_lock on the structural lock
CanLockShared(m) == m.exclusive = NoThread
CanLockExclusive(m) == m.exclusive = NoThread /\ m.shared = {}

\* the page-table writes of ChangeRegister over a page range, in page order
TableWrites(first, end, id) ==
    [k \in 1 .. (end - first) |-> [kind |-> "table", page |-> first + k - 1, id |-> id]]

\* for every overlapped buffer, in id order: its pages are unregistered,
\* then it is joined into the new buffer and deleted
RECURSIVE JoinSteps(_, _)
JoinSteps(sb, ids) ==
    IF ids = {}
    THEN <<>>
    ELSE LET id == CHOOSE x \in ids : \A y \in ids : x <= y
         IN TableWrites(sb[id].cpu_addr \div CACHING_PAGESIZE,
                        DivCeil(sb[id].cpu_addr + sb[id].size, CACHING_PAGESIZE),
                        NULL_BUFFER_ID)
            \o <<[kind |-> "join", page |-> 0, id |-> id]>>
            \o JoinSteps(sb, ids \ {id})

\* CreateBuffer, entry: the lock is taken exclusively and the new buffer
\* inserted in the slots
CreateBufferCallAct(t, r) ==
    /\ thr[t].pc = "idle"
    /\ CanLockExclusive(mutex)
    /\ FreeIds(slot_buffers) # {}
    /\ \E overlap \in {ResolveOverlaps(page_table, slot_buffers, r.addr, r.size)} :
          /\ NeedsNewBuffer(slot_buffers, overlap)
          /\ slot_buffers' =
                [slot_buffers EXCEPT ![NewId(slot_buffers)] =
                    [live |-> TRUE, cpu_addr |-> overlap.begin,
                     size |-> overlap.end - overlap.begin,
                     data |-> [k \in CachePages |-> Undef]]]
          /\ thr' = [thr EXCEPT ![t] =
                       [pc |-> "run", op |-> "CreateBuffer", id |-> NewId(slot_buffers),
                        i |-> 1,
                        steps |-> JoinSteps(slot_buffers, overlap.ids)
                                  \o TableWrites(overlap.begin \div CACHING_PAGESIZE,
                                                 overlap.end \div CACHING_PAGESIZE,
                                                 NewId(slot_buffers))]]
    /\ mutex' = [mutex EXCEPT !.exclusive = t]
    /\ UNCHANGED <<extVars, cpu_addr, cpu, gpu, write, read, watch, watchers, ranges, last, pre,
                   page_table, memory, dlVars, lock>>

\* CreateBuffer, one step: one page-table entry written, or one overlapped
\* buffer joined and deleted
CreateBufferStepAct(t) ==
    /\ thr[t].pc = "run"
    /\ thr[t].op = "CreateBuffer"
    /\ thr[t].i <= Len(thr[t].steps)
    /\ \E st \in {thr[t].steps[thr[t].i]} :
          IF st.kind = "table"
          THEN /\ page_table' = [page_table EXCEPT ![st.page] = st.id]
               /\ UNCHANGED slot_buffers
          ELSE \E c \in {JoinOverlap(Cache, thr[t].id, st.id)} :
                  /\ page_table' = c.page_table
                  /\ slot_buffers' = c.slot_buffers
    /\ thr' = [thr EXCEPT ![t].i = @ + 1]
    /\ UNCHANGED <<extVars, cpu_addr, cpu, gpu, write, read, watch, watchers, ranges, last, pre,
                   memory, dlVars, lock, mutex>>

\* CreateBuffer, return: the lock is released
CreateBufferReturnAct(t) ==
    /\ thr[t].pc = "run"
    /\ thr[t].op = "CreateBuffer"
    /\ thr[t].i > Len(thr[t].steps)
    /\ mutex' = [mutex EXCEPT !.exclusive = NoThread]
    /\ thr' = [thr EXCEPT ![t] = Idle]
    /\ UNCHANGED <<extVars, cpu_addr, cpu, gpu, write, read, watch, watchers, ranges, last, pre,
                   cacheVars, dlVars, lock>>

\* a lookup over [addr, addr + size), entry: the lock is taken in shared mode
LookupCallAct(t, r) ==
    /\ thr[t].pc = "idle"
    /\ CanLockShared(mutex)
    /\ mutex' = [mutex EXCEPT !.shared = @ \cup {t}]
    /\ thr' = [thr EXCEPT ![t] =
                 [pc |-> "run", op |-> "FindBuffer",
                  page |-> r.addr \div CACHING_PAGESIZE,
                  page_end |-> DivCeil(r.addr + r.size, CACHING_PAGESIZE),
                  seen |-> <<>>]]
    /\ UNCHANGED <<extVars, cpu_addr, cpu, gpu, write, read, watch, watchers, ranges, last, pre,
                   cacheVars, dlVars, lock>>

\* the lookup reads page_table[page]
LookupPageAct(t) ==
    /\ thr[t].pc = "run"
    /\ thr[t].op = "FindBuffer"
    /\ thr[t].page < thr[t].page_end
    /\ thr' = [thr EXCEPT ![t].seen = Append(@, [page |-> thr[t].page,
                                                 id |-> Entry(page_table, thr[t].page)]),
                          ![t].page = @ + 1]
    /\ UNCHANGED <<extVars, cpu_addr, cpu, gpu, write, read, watch, watchers, ranges, last, pre,
                   cacheVars, dlVars, lock, mutex>>

\* the lookup returns and releases the lock
LookupReturnAct(t) ==
    /\ thr[t].pc = "run"
    /\ thr[t].op = "FindBuffer"
    /\ thr[t].page >= thr[t].page_end
    /\ mutex' = [mutex EXCEPT !.shared = @ \ {t}]
    /\ thr' = [thr EXCEPT ![t] = Idle]
    /\ UNCHANGED <<extVars, cpu_addr, cpu, gpu, write, read, watch, watchers, ranges, last, pre,
                   cacheVars, dlVars, lock>>

NextS ==
    \/ \E t \in Threads, r \in StructRanges : CreateBufferCallAct(t, r)
    \/ \E t \in Threads : CreateBufferStepAct(t)
    \/ \E t \in Threads : CreateBufferReturnAct(t)
    \/ \E t \in Threads, r \in LookupRanges : LookupCallAct(t, r)
    \/ \E t \in Threads : LookupPageAct(t)
    \/ \E t \in Threads : LookupReturnAct(t)

SpecStruct == InitC /\ [][NextS]_vars

\* ------------------------------------------- util_streaming_load_memcpy
\* video_core/buffer_cache/stream_memcpy.cpp. An address is a natural number;
\* the destination bytes live in copy.dmem, the source bytes in SrcMem.
\* sizeof(__m128i)
VecBytes == 16

\* the addresses of the two memories; the buffers start at CopyBase plus the
\* misalignment of the call, so that bytes exist below and above them
CopyBase == 2 * VecBytes
CopyAddrs == 0 .. (8 * VecBytes - 1)

\* the source memory: no byte is 0, neighbouring bytes differ
SrcMem == [a \in CopyAddrs |-> 1 + (a % 251)]
\* the destination memory before the call
ZeroMem == [a \in CopyAddrs |-> 0]

\* the misalignments (address & 15) and the lengths of the calls
CopyAligns == {0, 1, 9, 15}
CopyLens == {0, 1, 6, 15, 16, 17, 33, 50}

\* ALIGN_POT(x, pot_align) / align_uintptr(value, alignment)
align_uintptr(value, alignment) ==
    ((value + alignment - 1) \div alignment) * alignment

\* memcpy(d, s, n) into the destination memory
Memcpy(dmem, d, s, n) ==
    [a \in CopyAddrs |-> IF d <= a /\ a < d + n THEN SrcMem[s + (a - d)] ELSE dmem[a]]

\* the fallback of lines 51-54: memcpy(d, s, len)
CopyFallback(c) ==
    [c EXCEPT !.dmem = Memcpy(c.dmem, c.d, c.s, c.len), !.pc = "done"]

\* faulty variant: the header copies up to the boundary even when len is less
CopyHeader_NoMin(c) ==
    IF c.d % VecBytes # 0
    THEN LET bytes_before_alignment_boundary == VecBytes - (c.d % VecBytes)
         IN [c EXCEPT !.dmem = Memcpy(c.dmem, c.d, c.s, bytes_before_alignment_boundary),
                      !.d = align_uintptr(c.d, VecBytes),
                      !.s = align_uintptr(c.s, VecBytes),
                      !.len = c.len - Min(bytes_before_alignment_boundary, c.len),
                      !.pc = "loop"]
    ELSE [c EXCEPT !.pc = "loop"]

\* the misaligned header of lines 59-68
CopyHeader(c) ==
    IF c.d % VecBytes # 0
    THEN LET bytes_before_alignment_boundary == VecBytes - (c.d % VecBytes)
         IN [c EXCEPT !.dmem = Memcpy(c.dmem, c.d, c.s,
                                      Min(bytes_before_alignment_boundary, c.len)),
                      !.d = align_uintptr(c.d, VecBytes),
                      !.s = align_uintptr(c.s, VecBytes),
                      !.len = c.len - Min(bytes_before_alignment_boundary, c.len),
                      !.pc = "loop"]
    ELSE [c EXCEPT !.pc = "loop"]

\* one iteration of the loop of lines 73-81: _mm_stream_load_si128 and
\* _mm_store_si128 move one vector; both fault on an address that is not a
\* multiple of 16
CopyVector(c) ==
    [c EXCEPT !.dmem = Memcpy(c.dmem, c.d, c.s, VecBytes),
              !.fault = c.fault \/ c.d % VecBytes # 0 \/ c.s % VecBytes # 0,
              !.d = c.d + VecBytes,
              !.s = c.s + VecBytes,
              !.len = c.len - VecBytes]

\* the tail of lines 84-86
CopyTail(c) ==
    IF c.len # 0
    THEN [c EXCEPT !.dmem = Memcpy(c.dmem, c.d, c.s, c.len), !.pc = "done"]
    ELSE [c EXCEPT !.pc = "done"]

\* util_streaming_load_memcpy(dst, src, len) is called with
\* dst = CopyBase + da and src = CopyBase + sa
CopyCallAct(da, sa, n) ==
    /\ copy.pc = "idle"
    /\ copy' = [pc |-> "entry", d |-> CopyBase + da, s |-> CopyBase + sa, len |-> n,
                dst |-> CopyBase + da, src |-> CopyBase + sa, size |-> n,
                dmem |-> ZeroMem, fault |-> FALSE]
    /\ UNCHANGED <<cpu_addr, cpu, gpu, write, read, watch, watchers, ranges, last, pre,
                   cacheVars, dlVars, lockVars, dec>>

\* line 51: dst and src are not co-aligned
CopyFallbackAct ==
    /\ copy.pc = "entry"
    /\ copy.d % VecBytes # copy.s % VecBytes
    /\ copy' = CopyFallback(copy)
    /\ UNCHANGED <<cpu_addr, cpu, gpu, write, read, watch, watchers, ranges, last, pre,
                   cacheVars, dlVars, lockVars, dec>>

CopyHeaderAct ==
    /\ copy.pc = "entry"
    /\ copy.d % VecBytes = copy.s % VecBytes
    /\ copy' = CopyHeader(copy)
    /\ UNCHANGED <<cpu_addr, cpu, gpu, write, read, watch, watchers, ranges, last, pre,
                   cacheVars, dlVars, lockVars, dec>>

CopyVectorAct ==
    /\ copy.pc = "loop"
    /\ copy.len >= VecBytes
    /\ copy' = CopyVector(copy)
    /\ UNCHANGED <<cpu_addr, cpu, gpu, write, read, watch, watchers, ranges, last, pre,
                   cacheVars, dlVars, lockVars, dec>>

CopyTailAct ==
    /\ copy.pc = "loop"
    /\ copy.len < VecBytes
    /\ copy' = CopyTail(copy)
    /\ UNCHANGED <<cpu_addr, cpu, gpu, write, read, watch, watchers, ranges, last, pre,
                   cacheVars, dlVars, lockVars, dec>>

\* the call returns; the next call starts from a zeroed destination
CopyReturnAct ==
    /\ copy.pc = "done"
    /\ copy' = NoCopy
    /\ UNCHANGED <<cpu_addr, cpu, gpu, write, read, watch, watchers, ranges, last, pre,
                   cacheVars, dlVars, lockVars, dec>>

NextCopy ==
    \/ \E da \in CopyAligns, sa \in CopyAligns, n \in CopyLens : CopyCallAct(da, sa, n)
    \/ CopyFallbackAct
    \/ CopyHeaderAct
    \/ CopyVectorAct
    \/ CopyTailAct
    \/ CopyReturnAct

SpecCopy == Init /\ [][NextCopy]_vars

\* ----------------------------------------------------- Videodec2::Decode
\* core/libraries/videodec/videodec2_impl.cpp. The results of the ffmpeg
\* calls are inputs. A frame is its size and its pixel format; NullFrame is
\* the null pointer ConvertNV12Frame returns when sws_scale fails.
NullFrame == [null |-> TRUE]

\* the frames avcodec_receive_frame delivers
Frames ==
    [null : {FALSE}, width : {16, 20}, height : {8, 16},
     format : {"NV12", "YUV420P"}]

\* the contents of the caller's frameBuffer and outputInfo before the call
CallerOutputs ==
    [isAccepted : BOOLEAN, isValid : BOOLEAN, isErrorFrame : BOOLEAN,
     pictureCount : {0, 2}, frameWidth : {0, 16}]

\* ConvertNV12Frame(frame) with res the result of sws_scale
ConvertNV12Frame(frame, res) ==
    IF res < 0 THEN NullFrame ELSE [frame EXCEPT !.format = "NV12"]

\* Decode(inputData, frameBuffer, outputInfo) is called
DecodeCallAct(out) ==
    /\ dec.pc = "idle"
    /\ dec' = [pc |-> "entry", sws |-> dec.sws,
               isAccepted |-> out.isAccepted, isValid |-> out.isValid,
               isErrorFrame |-> out.isErrorFrame, pictureCount |-> out.pictureCount,
               frameWidth |-> out.frameWidth, frameHeight |-> 0, frame |-> NullFrame, produced |-> FALSE,
               result |-> -1]
    /\ UNCHANGED <<cpu_addr, cpu, gpu, write, read, watch, watchers, ranges, last, pre,
                   cacheVars, dlVars, lockVars, copy>>

\* lines 52-60: the outputs are reset
DecodeResetAct ==
    /\ dec.pc = "entry"
    /\ dec' = [dec EXCEPT !.pc = "send", !.isAccepted = FALSE, !.isValid = FALSE,
                          !.isErrorFrame = TRUE, !.pictureCount = 0]
    /\ UNCHANGED <<cpu_addr, cpu, gpu, write, read, watch, watchers, ranges, last, pre,
                   cacheVars, dlVars, lockVars, copy>>

\* lines 62-66: avcodec_send_packet returns ret
DecodeSendAct(ret) ==
    /\ dec.pc = "send"
    /\ dec' = IF ret < 0
              THEN [dec EXCEPT !.pc = "returned", !.result = 0]
              ELSE [dec EXCEPT !.pc = "receive"]
    /\ UNCHANGED <<cpu_addr, cpu, gpu, write, read, watch, watchers, ranges, last, pre,
                   cacheVars, dlVars, lockVars, copy>>

\* lines 68-79: avcodec_receive_frame returns ret ("EAGAIN", another
\* negative value, or 0 with a frame)
DecodeReceiveAct(ret, frame) ==
    /\ dec.pc = "receive"
    /\ dec' = IF ret = "EAGAIN" \/ ret = "error"
              THEN [dec EXCEPT !.pc = "returned", !.result = 0]
              ELSE [dec EXCEPT !.pc = "convert", !.frame = frame, !.produced = TRUE]
    /\ UNCHANGED <<cpu_addr, cpu, gpu, write, read, watch, watchers, ranges, last, pre,
                   cacheVars, dlVars, lockVars, copy>>

\* lines 81-85: a frame that is not NV12 is replaced by the result of
\* ConvertNV12Frame, which sets mSwsContext on its first call; res is the
\* result of sws_scale
DecodeConvertAct(res) ==
    /\ dec.pc = "convert"
    /\ dec' = IF dec.frame.format # "NV12"
              THEN [dec EXCEPT !.pc = "copy", !.sws = TRUE,
                               !.frame = ConvertNV12Frame(dec.frame, res),
                               !.produced = res >= 0]
              ELSE [dec EXCEPT !.pc = "copy"]
    /\ UNCHANGED <<cpu_addr, cpu, gpu, write, read, watch, watchers, ranges, last, pre,
                   cacheVars, dlVars, lockVars, copy>>

\* line 87: CopyNV12Data(..., *frame). With frame the null pointer the
\* dereference is undefined: the call crashes, or runs on with what it reads
\* at address 0 (crash = FALSE)
DecodeCopyAct(crash) ==
    /\ dec.pc = "copy"
    /\ dec' = IF dec.frame.null /\ crash
              THEN [dec EXCEPT !.pc = "crashed"]
              ELSE [dec EXCEPT !.pc = "finish"]
    /\ UNCHANGED <<cpu_addr, cpu, gpu, write, read, watch, watchers, ranges, last, pre,
                   cacheVars, dlVars, lockVars, copy>>

\* lines 88-102: the outputs of a decoded frame
DecodeFinishAct ==
    /\ dec.pc = "finish"
    /\ dec' = [dec EXCEPT !.pc = "returned", !.result = 0,
                          !.isAccepted = TRUE, !.isValid = TRUE,
                          !.isErrorFrame = FALSE, !.pictureCount = 1,
                          !.frameWidth = IF dec.frame.null THEN 0 ELSE dec.frame.width,
                          !.frameHeight = IF dec.frame.null THEN 0 ELSE dec.frame.height]
    /\ UNCHANGED <<cpu_addr, cpu, gpu, write, read, watch, watchers, ranges, last, pre,
                   cacheVars, dlVars, lockVars, copy>>

\* the caller has the result; the decoder is ready for the next call
DecodeReturnAct ==
    /\ dec.pc = "returned"
    /\ dec' = [pc |-> "idle", sws |-> dec.sws]
    /\ UNCHANGED <<cpu_addr, cpu, gpu, write, read, watch, watchers, ranges, last, pre,
                   cacheVars, dlVars, lockVars, copy>>

NextDec ==
    \/ \E out \in CallerOutputs : DecodeCallAct(out)
    \/ DecodeResetAct
    \/ \E ret \in {-1, 0} : DecodeSendAct(ret)
    \/ \E ret \in {"EAGAIN", "error", "ok"}, frame \in Frames : DecodeReceiveAct(ret, frame)
    \/ \E res \in {-1, 0} : DecodeConvertAct(res)
    \/ \E crash \in BOOLEAN : DecodeCopyAct(crash)
    \/ DecodeFinishAct
    \/ DecodeReturnAct

SpecDec == Init /\ [][NextDec]_vars

\* ------------------------------------------------ vocabulary of the claims
NumPages == NUM_REGION_WORDS * PAGES_PER_WORD
RegionPages == 0 .. (NumPages - 1)

CpuModified(p) == PageBit(cpu, p)
GpuModified(p) == PageBit(gpu, p)
\* a set bit of write / read means that no watcher is held for the page
WriteTracked(p) == ~PageBit(write, p)
ReadTracked(p) == ~PageBit(read, p)

\* the pages of the region that overlap [addr, addr + size)
PageCover(addr, size) ==
    {p \in RegionPages : /\ size > 0
                         /\ cpu_addr + p * BYTES_PER_PAGE < addr + size
                         /\ addr < cpu_addr + (p + 1) * BYTES_PER_PAGE}

\* the maximal runs <<first, last>> of consecutive pages of S
MaxRuns(S) ==
    {ab \in S \X S : /\ ab[1] <= ab[2]
                     /\ (ab[1] - 1) \notin S
                     /\ (ab[2] + 1) \notin S
                     /\ \A x \in ab[1] .. ab[2] : x \in S}

\* the maximal runs of S that do not cross a word boundary
WordRuns(S) ==
    UNION {MaxRuns({p \in S : p \div PAGES_PER_WORD = i}) : i \in WordIdx}

\* runs as (addr, size) pairs in ascending address order
RECURSIVE RunSeq(_)
RunSeq(R) ==
    IF R = {}
    THEN <<>>
    ELSE LET m == CHOOSE ab \in R : \A cd \in R : ab[1] <= cd[1]
         IN <<[addr |-> cpu_addr + m[1] * BYTES_PER_PAGE,
               size |-> (m[2] - m[1] + 1) * BYTES_PER_PAGE]>>
            \o RunSeq(R \ {m})

\* the (addr, size) arguments of the calls of func
CallArgs(calls) ==
    [i \in 1 .. Len(calls) |-> [addr |-> calls[i].addr, size |-> calls[i].size]]

\* the pages a notification or a call of func names
PagesOf(n) ==
    {p \in RegionPages : /\ cpu_addr + p * BYTES_PER_PAGE >= n.addr
                         /\ cpu_addr + p * BYTES_PER_PAGE < n.addr + n.size}

IsChange(l, type, flag) ==
    l.op = "ChangeRegionState" /\ l.type = type /\ l.flag = flag
IsForEach(l, type, flag) ==
    l.op = "ForEachModifiedRange" /\ l.type = type /\ l.flag = flag

\* ------------------------------------------------------------------ C1
\* C1, as stated: in every reachable state every page is CPU-modified if and
\* only if it is not write-tracked.
C1_CpuModifiedIffNotWriteTracked ==
    \A p \in RegionPages : CpuModified(p) <=> ~WriteTracked(p)

\* C1, amended: in every reachable state a page that is not write-tracked is
\* CPU-modified; a CPU-modified page is write-tracked only from the moment a
\* ChangeRegionState<GPU, *> call covers it (that call write-tracks the page
\* and leaves its CPU-modified bit alone).
C1_NotWriteTrackedIsCpuModified ==
    \A p \in RegionPages :
       /\ ~WriteTracked(p) => CpuModified(p)
       /\ (CpuModified(p) /\ WriteTracked(p))
          => \/ PageBit(pre.cpu, p) /\ ~PageBit(pre.write, p)
             \/ /\ last.op = "ChangeRegionState"
                /\ last.type = "GPU"
                /\ p \in PageCover(last.addr, last.size)

\* a ChangeRegionState<GPU, *> call has left a CPU-modified page write-tracked
\* next to a CPU-modified page that is not
C1_Witness ==
    /\ last.op = "ChangeRegionState"
    /\ last.type = "GPU"
    /\ \E p \in PageCover(last.addr, last.size) : CpuModified(p) /\ WriteTracked(p)
    /\ \E q \in RegionPages : CpuModified(q) /\ ~WriteTracked(q)

\* ------------------------------------------------------------------ C2
\* C2, as stated: in every reachable state every GPU-modified page is
\* write-tracked.
C2_GpuModifiedIsWriteTracked ==
    \A p \in RegionPages : GpuModified(p) => WriteTracked(p)

\* C2, amended: in every reachable state a GPU-modified page that is not
\* CPU-modified is write-tracked; a GPU-modified page is without write
\* watcher only from the moment a ChangeRegionState<CPU, true> call covers it.
C2_GpuModifiedIsWriteTrackedUntilCpuDirty ==
    \A p \in RegionPages :
       /\ (GpuModified(p) /\ ~CpuModified(p)) => WriteTracked(p)
       /\ (GpuModified(p) /\ ~WriteTracked(p))
          => \/ PageBit(pre.gpu, p) /\ PageBit(pre.write, p)
             \/ /\ IsChange(last, "CPU", TRUE)
                /\ p \in PageCover(last.addr, last.size)

\* a ChangeRegionState<CPU, true> call has taken the write watcher off a
\* GPU-modified page, next to a GPU-modified page that is CPU-clean and
\* write-tracked
C2_Witness ==
    /\ IsChange(last, "CPU", TRUE)
    /\ \E p \in PageCover(last.addr, last.size) : GpuModified(p) /\ ~WriteTracked(p)
    /\ \E q \in RegionPages : GpuModified(q) /\ ~CpuModified(q) /\ WriteTracked(q)

\* ------------------------------------------------------------------ C3
\* C3: in every reachable state a page is read-tracked if and only if its
\* GPU-modified bit is set.
C3_ReadTrackedIffGpuModified ==
    \A p \in RegionPages : ReadTracked(p) <=> GpuModified(p)

\* a ForEachModifiedRange<GPU, true> call has reported and cleared some pages
\* while other pages are still GPU-modified and read-tracked
C3_Witness ==
    /\ IsForEach(last, "GPU", TRUE)
    /\ ranges # <<>>
    /\ \E p \in RegionPages : GpuModified(p) /\ ReadTracked(p)
    /\ \E q \in PageCover(last.addr, last.size) : ~GpuModified(q) /\ ~ReadTracked(q)

\* ------------------------------------------------------------------ C4
\* C4: ForEachModifiedRange<Side, clear> calls func exactly once for each
\* maximal run of pages that overlap the queried range and had the side's
\* modified bit set when it was called, with the run's start address and byte
\* length, in ascending address order; a run that crosses a word boundary is
\* one call.
C4_ReportsMaximalRuns ==
    last.op = "ForEachModifiedRange"
    => CallArgs(ranges)
       = RunSeq(MaxRuns({p \in PageCover(last.addr, last.size) :
                            PageBit(Span(last.type, pre), p)}))

\* a call that reported several runs, one of them across the boundary between
\* word 0 and word 1
C4_Witness ==
    /\ last.op = "ForEachModifiedRange"
    /\ Len(ranges) >= 2
    /\ \E i \in 1 .. Len(ranges) :
          {PAGES_PER_WORD - 1, PAGES_PER_WORD} \subseteq PagesOf(ranges[i])

\* the example of the claim: modified pages {2,3,4,7,8}, query over pages 0..9
C4_Example ==
    /\ last.op = "ForEachModifiedRange"
    /\ last.addr = At(0, 0)
    /\ last.size = 10 * BYTES_PER_PAGE
    /\ {p \in RegionPages : p < 10 /\ PageBit(Span(last.type, pre), p)} = {2, 3, 4, 7, 8}
    /\ CallArgs(ranges) = <<[addr |-> At(2, 0), size |-> 3 * BYTES_PER_PAGE],
                            [addr |-> At(7, 0), size |-> 2 * BYTES_PER_PAGE]>>

\* ------------------------------------------------------------------ C5
\* pages whose write / read watcher changed during the last operation
WriteChanged == {p \in RegionPages : PageBit(pre.write, p) # PageBit(write, p)}
ReadChanged == {p \in RegionPages : PageBit(pre.read, p) # PageBit(read, p)}

\* one notification per run of Runs(changed pages), of either kind
RunNotes(Runs(_)) ==
    {[addr |-> cpu_addr + r[1] * BYTES_PER_PAGE,
      size |-> (r[2] - r[1] + 1) * BYTES_PER_PAGE,
      delta |-> IF WriteTracked(r[1]) THEN 1 ELSE -1,
      is_read |-> FALSE] : r \in Runs(WriteChanged)}
    \cup
    {[addr |-> cpu_addr + r[1] * BYTES_PER_PAGE,
      size |-> (r[2] - r[1] + 1) * BYTES_PER_PAGE,
      delta |-> IF ReadTracked(r[1]) THEN 1 ELSE -1,
      is_read |-> TRUE] : r \in Runs(ReadChanged)}

\* C5, as stated: one ChangeRegionState call makes exactly one
\* UpdatePageWatchers call for every maximal run of pages whose write (or
\* read) protection changed, also when the run spans two words.
C5_OneCallPerMaximalRun ==
    last.op = "ChangeRegionState"
    => /\ Len(watch) = Cardinality(RunNotes(MaxRuns))
       /\ {watch[i] : i \in 1 .. Len(watch)} = RunNotes(MaxRuns)

\* C5, amended: one ChangeRegionState call makes exactly one
\* UpdatePageWatchers call for every maximal run, inside one 64-page word, of
\* pages whose write (or read) protection changed; a run of changed pages
\* that spans two words gives one call per word.
C5_OneCallPerRunInsideWord ==
    last.op = "ChangeRegionState"
    => /\ Len(watch) = Cardinality(RunNotes(WordRuns))
       /\ {watch[i] : i \in 1 .. Len(watch)} = RunNotes(WordRuns)

\* a ChangeRegionState call changed the write protection of a run of pages
\* that spans word 0 and word 1
C5_Witness ==
    /\ last.op = "ChangeRegionState"
    /\ \E r \in MaxRuns(WriteChanged) : r[1] < PAGES_PER_WORD /\ r[2] >= PAGES_PER_WORD
    /\ Len(watch) >= 3

\* ------------------------------------------------------------------ C6
\* C6: for ForEachModifiedRange<Side, true>, when func is called for a run
\* the side's modified bit of every page of the run is already cleared, and
\* when the call returns no page overlapping the range has the side's
\* modified bit set (IsRegionModified<Side> over the range is false).
C6_ClearedBeforeCallback ==
    (last.op = "ForEachModifiedRange" /\ last.flag)
    => /\ \A i \in 1 .. Len(ranges) : ranges[i].dirty = {}
       /\ \A p \in PageCover(last.addr, last.size) : ~PageBit(Span(last.type, Bits), p)
       /\ ~IsRegionModified(last.type, Bits, last.addr - cpu_addr, last.size)

\* a clearing call that reported two runs or more
C6_Witness ==
    /\ last.op = "ForEachModifiedRange"
    /\ last.flag
    /\ Len(ranges) >= 2

\* ------------------------------------------------------------------ C7
\* the pages func was called for
Reported == UNION {PagesOf(ranges[i]) : i \in 1 .. Len(ranges)}

\* C7, as stated: ForEachModifiedRange<CPU, true> emits write-watcher
\* notifications only with delta -1, and the pages it reported are not
\* write-tracked when it returns.
C7_CpuClearRemovesWriteWatchers ==
    IsForEach(last, "CPU", TRUE)
    => /\ \A i \in 1 .. Len(watch) : ~watch[i].is_read => watch[i].delta = -1
       /\ \A p \in Reported : ~WriteTracked(p)

\* C7, amended: ForEachModifiedRange<CPU, true> write-protects the pages it
\* clears: every notification it emits is a write-watcher addition
\* (delta +1, isRead = false), and the pages it reported are write-tracked
\* when it returns.
C7_CpuClearAddsWriteWatchers ==
    IsForEach(last, "CPU", TRUE)
    => /\ \A i \in 1 .. Len(watch) : ~watch[i].is_read /\ watch[i].delta = 1
       /\ \A p \in Reported : WriteTracked(p)

\* a ForEachModifiedRange<CPU, true> call that reported pages and notified
C7_Witness ==
    /\ IsForEach(last, "CPU", TRUE)
    /\ ranges # <<>>
    /\ watch # <<>>

\* ------------------------------------------------------------------ C8
\* C8: ForEachModifiedRange<GPU, true> emits UpdatePageWatchers(delta -1,
\* isRead = true) exactly for the pages overlapping the range that were
\* read-tracked before the call, each once, and nothing else; it leaves
\* every page of the range not read-tracked and GPU-clean, and changes no
\* write-tracking bit.
C8_GpuClearRemovesReadWatchers ==
    IsForEach(last, "GPU", TRUE)
    => /\ \A i \in 1 .. Len(watch) : watch[i].is_read /\ watch[i].delta = -1
       /\ UNION {PagesOf(watch[i]) : i \in 1 .. Len(watch)}
          = {p \in PageCover(last.addr, last.size) : ~PageBit(pre.read, p)}
       /\ \A i, j \in 1 .. Len(watch) :
             i # j => PagesOf(watch[i]) \cap PagesOf(watch[j]) = {}
       /\ \A p \in PageCover(last.addr, last.size) : ~ReadTracked(p) /\ ~GpuModified(p)
       /\ write = pre.write

\* a ForEachModifiedRange<GPU, true> call that took read watchers off pages of
\* which some are write-tracked and CPU-clean
C8_Witness ==
    /\ IsForEach(last, "GPU", TRUE)
    /\ watch # <<>>
    /\ ranges # <<>>
    /\ \E p \in Reported : WriteTracked(p)

\* ------------------------------------------------------------------ C9
LiveIds == {id \in BufferIds : slot_buffers[id].live}

\* C9: after any sequence of cache operations every page-table entry is null
\* or names a live buffer whose [base, base + size) covers that page, and no
\* page lies in two live buffers.
C9_PageTableConsistent ==
    /\ \A p \in CachePages :
          \/ page_table[p] = NULL_BUFFER_ID
          \/ /\ page_table[p] \in LiveIds
             /\ slot_buffers[page_table[p]].cpu_addr <= p * CACHING_PAGESIZE
             /\ (p + 1) * CACHING_PAGESIZE
                <= slot_buffers[page_table[p]].cpu_addr + slot_buffers[page_table[p]].size
    /\ \A a, b \in LiveIds :
          a # b => BufferPages(slot_buffers[a]) \cap BufferPages(slot_buffers[b]) = {}

\* an ObtainBuffer call for the range over pages 1 and 2 found both slots 1
\* and 2 taken, merged the two buffers into the buffer of slot 3 and
\* registered it for both pages
C9_Witness ==
    /\ last.op = "ObtainBuffer"
    /\ last.id = 3
    /\ LiveIds = {3}
    /\ page_table[1] = 3
    /\ page_table[2] = 3

\* ------------------------------------------------------------------ C10
\* the content of buffer id at byte offset off
DeviceAt(id, off) == slot_buffers[id].data[off \div CACHING_PAGESIZE]

\* C10: when the guest wrote a range, InvalidateMemory was called for the
\* range and then ObtainBuffer over it, with nothing in between, the buffer
\* returned holds at the returned offset the bytes of guest memory, and no
\* page of the range is CPU-modified.
C10_UploadRoundTrip ==
    (last.op = "ObtainBuffer" /\ last.chain = 3)
    => \A p \in PagesIn(last.addr, last.size) :
          /\ DeviceAt(last.id,
                      last.offset + Max(p * CACHING_PAGESIZE, last.addr) - last.addr)
             = memory[p]
          /\ ~CpuModified(p)

\* the round trip over the range from the middle of page 1 to the middle of
\* page 2, on a buffer that existed before the write and held other bytes
C10_Witness ==
    /\ last.op = "ObtainBuffer"
    /\ last.chain = 3
    /\ last.addr = CACHING_PAGESIZE + CACHING_PAGESIZE \div 2
    /\ ranges # <<>>
    /\ \A p \in PagesIn(last.addr, last.size) : memory[p] = 1
    /\ last.id = 1
    /\ slot_buffers[1].size = 2 * CACHING_PAGESIZE

\* ------------------------------------------------------------------ C11
\* the runs of pages of the range of the last call that were GPU-modified
\* when it was called, in ascending order
GpuRunsBefore ==
    RunSeq(MaxRuns({p \in PageCover(last.addr, last.size) : PageBit(pre.gpu, p)}))

\* C11: ReadMemory(address, size) does not return before a download has
\* completed for every run of pages of the range that was GPU-modified when
\* it was called (while it waits, every such run is downloaded or awaited),
\* and when it returns no page of the range is GPU-modified.
C11_ReadMemoryWaitsForDownloads ==
    last.op = "ReadMemory"
    => /\ downloads \o pending = GpuRunsBefore
       /\ last.returned
          => /\ downloads = GpuRunsBefore
             /\ \A p \in PageCover(last.addr, last.size) : ~GpuModified(p)

\* ReadMemory over pages 3..5 has returned after two downloads, of page 3 and
\* of page 5, and guest memory holds what the GPU wrote to page 3
C11_Witness ==
    /\ last.op = "ReadMemory"
    /\ last.returned
    /\ Len(downloads) = 2
    /\ memory[3] = 1

\* ------------------------------------------------------------------ C12
\* the last call was an ObtainBuffer that found buffers on its range and
\* created a new one
IsMerge == last.op = "ObtainBuffer" /\ last.created /\ DOMAIN last.old # {}

\* the pages of the request and of the buffers it overlapped
UnionPages ==
    PagesIn(last.addr, last.size)
    \cup UNION {BufferPages(last.old[id]) : id \in DOMAIN last.old}

\* the new buffer is the only buffer on the union of the request and the old
\* buffers, it is registered for all of it, and the old buffers are gone
MergedIntoOne ==
    /\ last.id \in LiveIds
    /\ last.id \notin DOMAIN last.old
    /\ UnionPages \subseteq BufferPages(slot_buffers[last.id])
    /\ \A p \in BufferPages(slot_buffers[last.id]) : page_table[p] = last.id
    /\ \A id \in DOMAIN last.old : id \notin LiveIds
    /\ \A id \in LiveIds \ {last.id} :
          BufferPages(slot_buffers[id]) \cap UnionPages = {}

\* the content of the new buffer at guest page p
NewAt(p) ==
    slot_buffers[last.id].data[p - slot_buffers[last.id].cpu_addr \div CACHING_PAGESIZE]
\* the content an old buffer held at guest page p
OldAt(old, p) == old.data[p - old.cpu_addr \div CACHING_PAGESIZE]

\* C12, as stated: after an ObtainBuffer that merges, one registered buffer
\* covers the request and every overlapped buffer, the old buffers are
\* unregistered and deleted, and the new buffer holds at every guest address
\* of an old buffer the bytes the old buffer held there.
C12_MergePreservesAllBytes ==
    IsMerge
    => /\ MergedIntoOne
       /\ \A id \in DOMAIN last.old : \A p \in BufferPages(last.old[id]) :
             NewAt(p) = OldAt(last.old[id], p)

\* C12, amended: the same, but the bytes of an old buffer are preserved only
\* on the pages that are not pages of the request that were CPU-modified at
\* the call; on those the new buffer holds the bytes of guest memory.
C12_MergePreservesCleanBytes ==
    IsMerge
    => /\ MergedIntoOne
       /\ \A id \in DOMAIN last.old : \A p \in BufferPages(last.old[id]) :
             IF p \in PagesIn(last.addr, last.size) /\ PageBit(pre.cpu, p)
             THEN NewAt(p) = memory[p]
             ELSE NewAt(p) = OldAt(last.old[id], p)

\* the example of the claim: buffer A over [0x1000, 0x2000), a request for
\* [0x1800, 0x2800); the new buffer spans pages 1 and 2 and holds on page 1
\* the bytes of A, which differ from guest memory
C12_Witness ==
    /\ IsMerge
    /\ last.addr = CACHING_PAGESIZE + CACHING_PAGESIZE \div 2
    /\ \E id \in DOMAIN last.old :
          /\ DOMAIN last.old = {id}
          /\ last.old[id].cpu_addr = CACHING_PAGESIZE
          /\ last.old[id].size = CACHING_PAGESIZE
    /\ BufferPages(slot_buffers[last.id]) = {1, 2}
    /\ ~PageBit(pre.cpu, 1)
    /\ NewAt(1) # memory[1]

\* ------------------------------------------------------------------ C13
\* C13: on an empty cache ObtainBuffer(address, size, isWritten = true)
\* creates exactly one buffer, maps exactly the pages of the range to it and
\* marks exactly that range GPU-modified; a ReadMemory over the range that
\* follows makes exactly one download, of that range, and a second
\* ReadMemory over it makes none.
C13_ObtainThenReadScenario ==
    /\ (last.op = "ObtainBuffer" /\ last.fresh /\ last.flag)
       => /\ LiveIds = {last.id}
          /\ {p \in CachePages : page_table[p] # NULL_BUFFER_ID}
             = PagesIn(last.addr, last.size)
          /\ \A p \in PagesIn(last.addr, last.size) : page_table[p] = last.id
          /\ {p \in RegionPages : GpuModified(p)} = PageCover(last.addr, last.size)
    /\ (last.op = "ReadMemory" /\ last.step = 1)
       => /\ downloads \o pending = <<[addr |-> last.addr, size |-> last.size]>>
          /\ last.returned => pending = <<>>
    /\ (last.op = "ReadMemory" /\ last.step = 2)
       => downloads = <<>> /\ pending = <<>>

\* the scenario of the claim has run to its end: ObtainBuffer(0x4000, 0x1000,
\* true) on the empty cache mapped page 4, the first ReadMemory(0x4000,
\* 0x1000) returned, the second one returned too
C13_Witness ==
    /\ last.op = "ReadMemory"
    /\ last.step = 2
    /\ last.returned
    /\ last.addr = 4 * CACHING_PAGESIZE
    /\ last.size = CACHING_PAGESIZE
    /\ {p \in CachePages : page_table[p] # NULL_BUFFER_ID} = {4}

\* ------------------------------------------------------------------ C14
\* the locked operation of thread u has changed some of its words and not
\* yet all of them
HalfApplied(u) ==
    /\ InLoop(u)
    /\ thr[u].op \in LockedOps
    /\ thr[u].i > 1

\* C14: every read and every write of the four bitsets by ChangeRegionState,
\* ForEachModifiedRange and IsRegionModified happens while the region's lock
\* is held by the calling thread, so that no thread reads or writes the
\* bitsets while the operation of another thread is half applied.
C14_BitsetsAccessedUnderLock ==
    \A t \in Threads :
       InLoop(t)
       => /\ lock = t
          /\ \A u \in Threads \ {t} : ~HalfApplied(u)

\* a state the calls reach: thread 1 is inside ChangeRegionState<CPU, false>
\* over pages 63..64, has cleared page 63 and not yet page 64, and thread 2
\* is inside IsRegionModified<CPU> over the same pages, about to read word 1
C14_HalfAppliedObserved ==
    /\ lock = 1
    /\ HalfApplied(1)
    /\ thr[1].op = "ChangeRegionState"
    /\ ~CpuModified(63)
    /\ CpuModified(64)
    /\ InLoop(2)
    /\ thr[2].op = "IsRegionModified"
    /\ thr[2].i = 2

\* ------------------------------------------------------------------ C15
\* the entries lookup t has read so far
Seen(t) == {thr[t].seen[k] : k \in 1 .. Len(thr[t].seen)}

\* C15: a lookup that runs concurrently with buffer creations and merges
\* never observes a partially registered buffer: of the page-table entries
\* it reads on the page run of one buffer, either all name that buffer or
\* none does; and while a thread writes the page table no lookup is running.
C15_LookupSeesWholeBuffers ==
    \A t \in Threads :
       (thr[t].pc = "run" /\ thr[t].op = "FindBuffer")
       => /\ mutex.exclusive = NoThread
          /\ \A id \in LiveIds :
                \A e1, e2 \in Seen(t) :
                   (e1.page \in BufferPages(slot_buffers[id])
                    /\ e2.page \in BufferPages(slot_buffers[id]))
                   => (e1.id = id <=> e2.id = id)

\* a lookup has read the three entries of pages 3..5 and found the two pages
\* of one buffer, while the other thread waits to create a buffer
C15_Witness ==
    \E t \in Threads :
       /\ thr[t].pc = "run"
       /\ thr[t].op = "FindBuffer"
       /\ Len(thr[t].seen) = 3
       /\ \E id \in LiveIds :
             /\ Cardinality(BufferPages(slot_buffers[id])) = 2
             /\ \A e \in Seen(t) :
                   e.page \in BufferPages(slot_buffers[id]) => e.id = id
       /\ Cardinality(LiveIds) = 1

\* ------------------------------------------------------------------ C16
\* C16: InvalidateMemory(address, size) only marks the range CPU-modified:
\* it makes no upload and no download (func is never called, guest memory
\* and the device memory of every buffer are as before), it leaves the page
\* table and the set of buffers as they were, and it changes no GPU-modified
\* bit; the device copy stays stale until ObtainBuffer synchronizes it.
C16_InvalidateOnlyMarksCpu ==
    last.op = "InvalidateMemory"
    => /\ page_table = last.before.page_table
       /\ slot_buffers = last.before.slot_buffers
       /\ memory = last.before.memory
       /\ ranges = <<>>
       /\ pending = <<>>
       /\ downloads = <<>>
       /\ gpu = pre.gpu
       /\ \A p \in RegionPages :
             CpuModified(p)
             <=> (PageBit(pre.cpu, p) \/ p \in PageCover(last.addr, last.size))

\* InvalidateMemory has marked page 1 after a guest write to it, while the
\* buffer registered for page 1 still holds the bytes from before the write
C16_Witness ==
    /\ last.op = "InvalidateMemory"
    /\ last.chain = 2
    /\ last.addr = CACHING_PAGESIZE
    /\ ~PageBit(pre.cpu, 1)
    /\ CpuModified(1)
    /\ page_table[1] # NULL_BUFFER_ID
    /\ slot_buffers[page_table[1]].data[
          1 - slot_buffers[page_table[1]].cpu_addr \div CACHING_PAGESIZE] # memory[1]

\* ------------------------------------------------------------------ C17
\* C17: ObtainBufferForImage(address, size) does not mutate modification
\* state: when it returns, the CPU-modified and the GPU-modified bit of
\* every page, the page table and the set of buffers are as they were
\* before the call.
C17_ForImageKeepsModificationState ==
    last.op = "ObtainBufferForImage"
    => /\ cpu = pre.cpu
       /\ gpu = pre.gpu
       /\ page_table = last.before.page_table
       /\ BufferSet(slot_buffers) = last.before.buffers

\* ObtainBufferForImage found the buffer of page 1 stale, copied the guest
\* bytes into it, and page 1 is still CPU-modified
C17_Witness ==
    /\ last.op = "ObtainBufferForImage"
    /\ last.addr = CACHING_PAGESIZE
    /\ last.id # NULL_BUFFER_ID
    /\ ranges # <<>>
    /\ CpuModified(1)
    /\ memory[1] = 1
    /\ slot_buffers[last.id].data[
          1 - slot_buffers[last.id].cpu_addr \div CACHING_PAGESIZE] = 1

\* ------------------------------------------------------------------ C18
\* C18: ChangeRegionState<CPU, true> is idempotent: a second call on the
\* same range, right after the first, leaves the four bitsets as the first
\* call left them and emits no UpdatePageWatchers notification.
C18_CpuDirtyIdempotent ==
    (IsChange(last, "CPU", TRUE) /\ last.again)
    => /\ Bits = pre
       /\ watch = <<>>

\* the second of two ChangeRegionState<CPU, true> calls over pages 2..4 has
\* returned; the pages of the range are CPU-modified and without write
\* watcher, while page 7 is write-tracked
C18_Witness ==
    /\ IsChange(last, "CPU", TRUE)
    /\ last.again
    /\ last.addr = At(2, 0)
    /\ \A p \in PageCover(last.addr, last.size) : CpuModified(p) /\ ~WriteTracked(p)
    /\ WriteTracked(7)

\* ------------------------------------------------------------------ C19
\* C19: IsRegionModified<Side>(offset, size) returns true if and only if at
\* least one page of the region that overlaps [offset, offset + size) has the
\* side's modified bit set; it changes no bitset and emits no notification.
C19_IsRegionModifiedExact ==
    last.op = "IsRegionModified"
    => /\ last.result
          <=> \E p \in PageCover(last.addr, last.size) : PageBit(Span(last.type, Bits), p)
       /\ Bits = pre
       /\ watch = <<>>
       /\ ranges = <<>>

\* IsRegionModified<CPU> over pages 7..8 answered false while pages 2..4 of
\* the same word are CPU-modified
C19_Witness ==
    /\ last.op = "IsRegionModified"
    /\ last.type = "CPU"
    /\ last.addr = At(7, 0)
    /\ ~last.result
    /\ CpuModified(2)

\* ------------------------------------------------------------------ C20
\* the intersection of [addr, addr + size) with the region, as (addr, size)
Clip(addr, size) ==
    LET ca == Max(addr, cpu_addr)
        ce == Min(addr + size, cpu_addr + HIGHER_PAGE_SIZE)
    IN [addr |-> ca, size |-> Max(ce - ca, 0)]

\* the call recorded in last was made with a range that is not inside the
\* region
LeavesRegion ==
    /\ last.op # "none"
    /\ \/ last.addr < cpu_addr
       \/ last.addr + last.size > cpu_addr + HIGHER_PAGE_SIZE

\* C20: ChangeRegionState, ForEachModifiedRange and IsRegionModified on a
\* range that lies partly outside the region have exactly the effect and the
\* result of the same operation on the intersection of the range with the
\* region; on a zero-length range or a range entirely outside the region they
\* change no bit, emit no notification, invoke no callback and yield false.
C20_RangeClipping ==
    LET k == Clip(last.addr, last.size)
    IN /\ last.op = "ChangeRegionState"
          => LET st == ChangeRegionState(last.type, last.flag, cpu_addr, pre,
                                         k.addr, k.size)
             IN /\ Bits = [cpu |-> st.cpu, gpu |-> st.gpu,
                           write |-> st.write, read |-> st.read]
                /\ watch = st.watch
                /\ ranges = <<>>
       /\ last.op = "ForEachModifiedRange"
          => LET f == ForEachModifiedRange(last.type, last.flag, cpu_addr, pre,
                                          k.addr, k.size)
             IN /\ Bits = [cpu |-> f.cpu, gpu |-> f.gpu,
                           write |-> f.write, read |-> f.read]
                /\ watch = f.watch
                /\ ranges = f.calls
       /\ last.op = "IsRegionModified"
          => /\ last.result = IsRegionModified(last.type, pre,
                                               k.addr - cpu_addr, k.size)
             /\ Bits = pre
             /\ watch = <<>>
             /\ ranges = <<>>
       /\ (last.op # "none" /\ k.size = 0)
          => /\ Bits = pre
             /\ watch = <<>>
             /\ ranges = <<>>
             /\ last.op = "IsRegionModified" => ~last.result
       /\ last.op # "none"
          => \A p \in RegionPages \ PageCover(k.addr, k.size) :
                /\ PageBit(cpu, p) = PageBit(pre.cpu, p)
                /\ PageBit(gpu, p) = PageBit(pre.gpu, p)
                /\ PageBit(write, p) = PageBit(pre.write, p)
                /\ PageBit(read, p) = PageBit(pre.read, p)

\* ForEachModifiedRange<CPU, true> on the range that starts two pages below
\* the region reported pages 0..2 as one run and cleared them
C20_Witness ==
    /\ LeavesRegion
    /\ last.op = "ForEachModifiedRange"
    /\ last.type = "CPU"
    /\ last.flag
    /\ last.addr = RegionBase - 2 * BYTES_PER_PAGE
    /\ Len(ranges) = 1
    /\ ranges[1].addr = RegionBase
    /\ ranges[1].size = 3 * BYTES_PER_PAGE
    /\ ~CpuModified(0)
    /\ ~CpuModified(2)
    /\ CpuModified(3)

\* ChangeRegionState<CPU, false> on the range that ends two pages past the
\* region cleaned pages 1022 and 1023
C20_WitnessPastEnd ==
    /\ LeavesRegion
    /\ last.op = "ChangeRegionState"
    /\ last.addr = At(1022, 0)
    /\ pre.cpu # cpu
    /\ ~CpuModified(1022)
    /\ ~CpuModified(1023)
    /\ CpuModified(1021)

\* ------------------------------------------------------------------ C21
\* C21: when util_streaming_load_memcpy(dst, src, len) returns, dst[0..len)
\* equals src[0..len) byte for byte and no byte outside dst[0..len) has been
\* written, for every length and every pair of alignments; at no step is a
\* byte outside dst[0..len) written or a vector moved at a misaligned address.
C21_StreamingCopyIsMemcpy ==
    copy.pc # "idle"
    => /\ ~copy.fault
       /\ \A a \in CopyAddrs :
             (a < copy.dst \/ a >= copy.dst + copy.size) => copy.dmem[a] = 0
       /\ copy.pc = "done"
          => \A i \in 0 .. (copy.size - 1) :
                copy.dmem[copy.dst + i] = SrcMem[copy.src + i]

\* a co-aligned call with a misaligned header, two vectors and a tail
\* (alignment 9, length 50: 7 + 32 + 11 bytes) is about to return
C21_Witness ==
    /\ copy.pc = "done"
    /\ copy.dst % VecBytes = 9
    /\ copy.src % VecBytes = 9
    /\ copy.size = 50
    /\ copy.len = 11
    /\ copy.dmem[copy.dst + 49] = SrcMem[copy.src + 49]

\* ------------------------------------------------------------------ C22
\* C22: when ChangeRegionState<type, is_dirty>(addr, size) returns, every page
\* that overlaps the part of the range inside the region is: CPU-modified and
\* not write-tracked (CPU, dirty); CPU-clean and write-tracked (CPU, clean);
\* GPU-modified, write-tracked and read-tracked (GPU, dirty); GPU-clean,
\* write-tracked and not read-tracked (GPU, clean).
C22_ChangeRegionStatePostcondition ==
    last.op = "ChangeRegionState"
    => \A p \in PageCover(last.addr, last.size) :
          /\ IsChange(last, "CPU", TRUE) => CpuModified(p) /\ ~WriteTracked(p)
          /\ IsChange(last, "CPU", FALSE) => ~CpuModified(p) /\ WriteTracked(p)
          /\ IsChange(last, "GPU", TRUE)
             => GpuModified(p) /\ WriteTracked(p) /\ ReadTracked(p)
          /\ IsChange(last, "GPU", FALSE)
             => ~GpuModified(p) /\ WriteTracked(p) /\ ~ReadTracked(p)

\* ChangeRegionState<GPU, true> on the range that starts two pages below the
\* region changed all three states of page 0
C22_Witness ==
    /\ IsChange(last, "GPU", TRUE)
    /\ last.addr < cpu_addr
    /\ 0 \in PageCover(last.addr, last.size)
    /\ ~PageBit(pre.gpu, 0) /\ PageBit(pre.write, 0) /\ PageBit(pre.read, 0)
    /\ GpuModified(0) /\ WriteTracked(0) /\ ReadTracked(0)

\* ------------------------------------------------------------------ C23
\* the pages the notifications of the last call name
Notified == UNION {PagesOf(watch[i]) : i \in 1 .. Len(watch)}

\* C23: ForEachModifiedRange<CPU, true> emits UpdatePageWatchers(delta +1,
\* isRead = false) exactly for the pages overlapping the range that were not
\* write-tracked before the call, each once, whether or not they were
\* reported; when it returns every page overlapping the range is CPU-clean
\* and write-tracked.
C23_CpuClearReprotects ==
    IsForEach(last, "CPU", TRUE)
    => /\ \A i \in 1 .. Len(watch) : ~watch[i].is_read /\ watch[i].delta = 1
       /\ Notified = {p \in PageCover(last.addr, last.size) : PageBit(pre.write, p)}
       /\ \A i, j \in 1 .. Len(watch) :
             i # j => PagesOf(watch[i]) \cap PagesOf(watch[j]) = {}
       /\ \A p \in PageCover(last.addr, last.size) : ~CpuModified(p) /\ WriteTracked(p)

\* a ForEachModifiedRange<CPU, true> call over pages 0..65 that reported page
\* 2, which was write-tracked already and was not notified, and page 5, which
\* was not write-tracked and was notified
C23_Witness ==
    /\ IsForEach(last, "CPU", TRUE)
    /\ 2 \in Reported /\ 2 \notin Notified /\ ~PageBit(pre.write, 2)
    /\ 5 \in Reported /\ 5 \in Notified /\ PageBit(pre.write, 5)

\* ------------------------------------------------------------------ C24
\* the running sums of write-watcher and read-watcher deltas of page p of the
\* region
WriteWatchers(p) == WatcherCount(watchers.write, cpu_addr \div BYTES_PER_PAGE + p)
ReadWatchers(p) == WatcherCount(watchers.read, cpu_addr \div BYTES_PER_PAGE + p)

\* C24: over any sequence of ChangeRegionState and ForEachModifiedRange calls,
\* for every page the running sum of the write-watcher deltas sent to
\* UpdatePageWatchers is 0 or 1 after every notification and is 1 exactly
\* when the page is write-tracked, and the running sum of the read-watcher
\* deltas is 0 or 1 after every notification and is 1 exactly when the page
\* is read-tracked.
C24_WatcherBalance ==
    /\ watchers.ok
    /\ \A p \in RegionPages :
          /\ WriteWatchers(p) \in {0, 1}
          /\ WriteWatchers(p) = 1 <=> WriteTracked(p)
          /\ ReadWatchers(p) \in {0, 1}
          /\ ReadWatchers(p) = 1 <=> ReadTracked(p)

\* a ChangeRegionState<CPU, true> call took the write watcher off page 2,
\* which keeps its read watcher, while page 7 holds a write watcher only
C24_Witness ==
    /\ IsChange(last, "CPU", TRUE)
    /\ \E i \in 1 .. Len(watch) : watch[i].delta = -1 /\ 2 \in PagesOf(watch[i])
    /\ WriteWatchers(2) = 0 /\ ReadWatchers(2) = 1
    /\ WriteWatchers(7) = 1 /\ ReadWatchers(7) = 0

\* ------------------------------------------------------------------ C25
\* the pages the scan of thread 2 has called func for
ScanReported ==
    UNION {PagesOf(thr[Scanner].calls[i]) : i \in 1 .. Len(thr[Scanner].calls)}

BothReturned == \A t \in Threads : thr[t].pc = "done"

\* C25: when ChangeRegionState<CPU, true> on page 64 runs on one thread while
\* ForEachModifiedRange<CPU, true> over pages 63..64 runs on another, then
\* once both have returned either the scan has reported page 64 from a word
\* it read after the mark was applied, or page 64 is still CPU-modified.
C25_NoLostInvalidation ==
    BothReturned
    => \/ 64 \in ScanReported /\ thr[Scanner].marked
       \/ CpuModified(64)

\* page 64 was clean, the mark was applied first and the scan, which waited
\* for the lock, reported page 64 and cleared it
C25_Witness ==
    /\ BothReturned
    /\ ~PageBit(pre.cpu, 64)
    /\ IsChange(last, "CPU", FALSE)
    /\ thr[Scanner].marked
    /\ 64 \in ScanReported
    /\ ~CpuModified(64)

\* page 64 was clean, the scan ran first and reported nothing for it, the
\* mark was applied after it and page 64 is CPU-modified
C25_WitnessScanFirst ==
    /\ BothReturned
    /\ ~PageBit(pre.cpu, 64) \/ IsChange(last, "CPU", FALSE)
    /\ ~thr[Scanner].marked
    /\ 64 \notin ScanReported
    /\ CpuModified(64)

\* ------------------------------------------------------------------ C26
\* the pages whose bit in one of the four bitsets differs from before the call
Touched ==
    {p \in RegionPages : \/ PageBit(cpu, p) # PageBit(pre.cpu, p)
                         \/ PageBit(gpu, p) # PageBit(pre.gpu, p)
                         \/ PageBit(write, p) # PageBit(pre.write, p)
                         \/ PageBit(read, p) # PageBit(pre.read, p)}

\* C26: a ChangeRegionState<GPU, *> call changes no CPU-modified bit; a
\* ChangeRegionState<CPU, *> call changes no GPU-modified bit and no
\* read-tracking bit and emits no read-watcher notification; no
\* ChangeRegionState call changes a bit of, or emits a notification for, a
\* page that does not overlap [address, address + size).
C26_ChangeRegionStateFrame ==
    last.op = "ChangeRegionState"
    => /\ last.type = "GPU" => cpu = pre.cpu
       /\ last.type = "CPU"
          => /\ gpu = pre.gpu
             /\ read = pre.read
             /\ \A i \in 1 .. Len(watch) : ~watch[i].is_read
       /\ Touched \subseteq PageCover(last.addr, last.size)
       /\ \A i \in 1 .. Len(watch) :
             /\ PagesOf(watch[i]) \subseteq PageCover(last.addr, last.size)
             /\ watch[i].size = Cardinality(PagesOf(watch[i])) * BYTES_PER_PAGE

\* ChangeRegionState<GPU, true> on pages 1022..1023 changed their GPU and
\* tracking bits and notified, while they and page 1021 stay CPU-modified
C26_Witness ==
    /\ IsChange(last, "GPU", TRUE)
    /\ last.addr = At(1022, 0)
    /\ Touched = {1022, 1023}
    /\ watch # <<>>
    /\ CpuModified(1021) /\ CpuModified(1022)

\* ------------------------------------------------------------------ C27
\* C27: ForEachModifiedRange<Side, false> changes none of the four bitsets
\* and emits no UpdatePageWatchers notification, and a second call with the
\* same arguments right after the first makes the same calls of func.
C27_QueryIsPure ==
    (last.op = "ForEachModifiedRange" /\ ~last.flag)
    => /\ Bits = pre
       /\ watch = <<>>
       /\ last.again => ranges = last.prev

\* the second of two ForEachModifiedRange<CPU, false> calls over pages 0..9
\* reported two runs again, with pages 2..4 clean
C27_Witness ==
    /\ IsForEach(last, "CPU", FALSE)
    /\ last.again
    /\ last.addr = At(0, 0)
    /\ Len(ranges) = 2
    /\ ~CpuModified(2)

\* ------------------------------------------------------------------ C28
\* C28: a freshly constructed RegionManager has every page CPU-modified,
\* GPU-clean, not write-tracked and not read-tracked, and no
\* UpdatePageWatchers notification has been emitted; the first
\* ForEachModifiedRange<CPU, *> call, over a non-empty range inside the
\* region, reports the whole page cover of the range as one run.
C28_FreshRegionAllCpuModified ==
    /\ last.op = "none"
       => /\ \A p \in RegionPages :
                CpuModified(p) /\ ~GpuModified(p) /\ ~WriteTracked(p) /\ ~ReadTracked(p)
          /\ watch = <<>>
          /\ watchers = NoWatchers
    /\ (last.op = "ForEachModifiedRange" /\ last.type = "CPU" /\ last.first
        /\ last.size > 0)
       => LET cover == PageCover(last.addr, last.size)
              lo == CHOOSE p \in cover : \A q \in cover : p <= q
          IN CallArgs(ranges)
             = <<[addr |-> cpu_addr + lo * BYTES_PER_PAGE,
                  size |-> Cardinality(cover) * BYTES_PER_PAGE]>>

\* the first call on the RegionManager was ForEachModifiedRange<CPU, true>
\* over pages 0..65, which reported one run of 66 pages
C28_Witness ==
    /\ IsForEach(last, "CPU", TRUE)
    /\ last.first
    /\ last.addr = At(0, 256)
    /\ Len(ranges) = 1
    /\ ranges[1].size = 66 * BYTES_PER_PAGE

\* ------------------------------------------------------------------ C29
\* every non-null entry of the page table names a live buffer that covers
\* the page
EntriesNameCoveringBuffers ==
    \A p \in CachePages :
       page_table[p] # NULL_BUFFER_ID
       => /\ slot_buffers[page_table[p]].live
          /\ p \in BufferPages(slot_buffers[page_table[p]])

\* the buffers with a registered page that overlaps [addr, addr + size)
RegisteredIn(addr, size) ==
    {page_table[p] : p \in PagesIn(addr, size)} \ {NULL_BUFFER_ID}

\* the conclusion of C29 for the scan recorded in last
ScanIsExact ==
    /\ last.prev >= 0 => last.page > last.prev
    /\ last.returned
       => /\ {last.calls[i] : i \in 1 .. Len(last.calls)}
             = RegisteredIn(last.addr, last.size)
          /\ \A i, j \in 1 .. Len(last.calls) :
                i < j => slot_buffers[last.calls[i]].cpu_addr
                         < slot_buffers[last.calls[j]].cpu_addr
          /\ last.calls = ForEachBufferInRange(page_table, slot_buffers,
                                               last.addr, last.size)

C29_ScanOfNonEmptyRange ==
    (last.op = "ForEachBufferInRange" /\ EntriesNameCoveringBuffers /\ last.size > 0)
    => ScanIsExact

\* a scan of pages 0..5 has returned after calling func for the buffer of
\* page 1 and then for the buffer of pages 3..4
C29_ScanOfTwoBuffers ==
    /\ last.op = "ForEachBufferInRange"
    /\ last.returned
    /\ last.size = 6 * CACHING_PAGESIZE
    /\ Len(last.calls) = 2
    /\ slot_buffers[last.calls[2]].size = 2 * CACHING_PAGESIZE
    /\ EntriesNameCoveringBuffers

\* a scan of the empty range in the middle of page 1 has called func for the
\* buffer of page 1
C29_EmptyRangeCallsFunc ==
    /\ last.op = "ForEachBufferInRange"
    /\ last.returned
    /\ last.size = 0
    /\ last.calls # <<>>
    /\ EntriesNameCoveringBuffers

\* ------------------------------------------------------------------ C30
\* on return the outputs agree with each other and with whether a frame was
\* produced
DecodeOutputsConsistent ==
    /\ dec.result = 0
    /\ dec.isAccepted = dec.isValid
    /\ dec.isValid = ~dec.isErrorFrame
    /\ dec.pictureCount = (IF dec.produced THEN 1 ELSE 0)
    /\ dec.isAccepted = dec.produced

\* C30: Decode returns on every path, with 0, and on return
\* frameBuffer.isAccepted = outputInfo.isValid = ~outputInfo.isErrorFrame and
\* outputInfo.pictureCount is 1 when a frame was produced and 0 otherwise.
C30_DecodeOutputsConsistent ==
    /\ dec.pc # "crashed"
    /\ dec.pc = "returned" => DecodeOutputsConsistent

\* the same for the calls in which ConvertNV12Frame does not return null,
\* where it holds
C30_ConsistentUnlessConversionFails ==
    (dec.pc \in {"returned", "crashed"} /\ ~dec.frame.null)
    => dec.pc = "returned" /\ DecodeOutputsConsistent

\* Decode dereferences the null pointer ConvertNV12Frame returned
C30_NullFrameDereferenced ==
    /\ dec.pc \in {"crashed", "finish"}
    /\ dec.frame.null

\* a later call returned without a frame, its outputs reset
C30_FailedCallReturned ==
    /\ dec.pc = "returned"
    /\ ~dec.produced
    /\ dec.sws
    /\ ~dec.isAccepted /\ ~dec.isValid /\ dec.isErrorFrame /\ dec.pictureCount = 0

====
